---------------------------- MODULE Spec2Model ----------------------------
(***************************************************************************)
(* Speaker-identity resolution of generate_speaker_embeddings.py: the run *)
(* of main() from the loaded diarization segments to the written output.   *)
(*                                                                         *)
(* Numbers.  Vector components and similarities are fixed-point numbers   *)
(* with Scale units to 1.0 (the float32 kernels of numpy are abstracted   *)
(* to this grid).  The scalars of the threshold schedule (threshold, cur, *)
(* auto_lower_min, auto_lower_step and the similarity handed to the       *)
(* comparison) are IEEE-754 binary64 values, computed exactly: a value is *)
(* a sign and a magnitude in units of 2^-60 held in four limbs of 20 bits.*)
(* Strings (speaker labels) are sequences of code points.                 *)
(***************************************************************************)
EXTENDS Integers, Sequences, FiniteSets, TLC

----------------------------------------------------------------------------
(* Bounds of the model *)

\* passes of the auto-lower loop after which the model stops following a run
MaxRetries == 6

\* file speakers of a run of the local merge
MaxLocal == 3

\* segments of the speaker that is cleaned
MaxSegs == 3

\* fixed-point resolution of vector components and similarities
Scale == 10^3

LimbBase == 2^20

----------------------------------------------------------------------------
(* Strings as sequences of code points *)

StrSPK == <<83, 80, 75>>

Digits == 48..57

\* str.isdigit() on an ASCII string
IsDigitStr(s) == Len(s) > 0 /\ \A i \in 1..Len(s) : s[i] \in Digits

\* int(s) for a string of ASCII digits
RECURSIVE ParseInt(_)
ParseInt(s) ==
    IF Len(s) = 0 THEN 0
    ELSE 10 * ParseInt(SubSeq(s, 1, Len(s) - 1)) + (s[Len(s)] - 48)

\* str(n) for n >= 0
RECURSIVE IntToStr(_)
IntToStr(n) ==
    IF n < 10 THEN <<48 + n>>
    ELSE Append(IntToStr(n \div 10), 48 + (n % 10))

\* f"{n:02d}" for n >= 0
\* str(n) in place of the two-digit format
Format02dNoPad(n) == IntToStr(n)

Format02d(n) == IF n < 10 THEN <<48>> \o IntToStr(n) ELSE IntToStr(n)

\* Python's string order (a < b)
RECURSIVE StrLess(_, _)
StrLess(a, b) ==
    IF Len(b) = 0 THEN FALSE
    ELSE IF Len(a) = 0 THEN TRUE
    ELSE IF a[1] # b[1] THEN a[1] < b[1]
    ELSE StrLess(Tail(a), Tail(b))

\* the first label of the pair always counts as the smaller
StrLeqAlways(a, b) == TRUE

StrLeq(a, b) == a = b \/ StrLess(a, b)

----------------------------------------------------------------------------
(* Fixed-point vector arithmetic *)

\* a / b rounded to the nearest grid point, b > 0
RoundDiv(a, b) == (2 * a + b) \div (2 * b)

RECURSIVE ISqrtIter(_, _, _)
ISqrtIter(n, lo, hi) ==
    IF lo >= hi THEN lo
    ELSE LET mid == (lo + hi + 1) \div 2
         IN IF mid * mid <= n THEN ISqrtIter(n, mid, hi)
            ELSE ISqrtIter(n, lo, mid - 1)

\* floor of the square root of n >= 0
ISqrt(n) == ISqrtIter(n, 0, 46340)

Dot(a, b) == a[1] * b[1] + a[2] * b[2]

\* the one value that is not a number: float('nan'), as a component of a
\* vector and as a similarity
NaN == 1000 * Scale

\* np.all(np.isfinite(v))
IsFinite(v) == \A i \in 1..Len(v) : v[i] # NaN

\* ten times np.linalg.norm(v), on the grid
Norm10(v) == ISqrt(100 * Dot(v, v))

VScale(v, k) == <<v[1] * k, v[2] * k>>

VAdd(a, b) == <<a[1] + b[1], a[2] + b[2]>>

\* v / d for a duration d > 0
VDiv(v, d) == <<RoundDiv(v[1], d), RoundDiv(v[2], d)>>

\* "norm = np.linalg.norm(v); if norm > 0: v = v / norm"
\* the norm of a vector with a NaN component is NaN, and v / NaN is all NaN
Normalize(v) ==
    IF ~IsFinite(v) THEN <<NaN, NaN>>
    ELSE LET n == Norm10(v)
         IN IF n > 0
            THEN <<RoundDiv(v[1] * Scale * 10, n), RoundDiv(v[2] * Scale * 10, n)>>
            ELSE v

\* np.dot of two grid vectors, as a grid number; NaN when a component is NaN
cosine(a, b) ==
    IF IsFinite(a) /\ IsFinite(b) THEN RoundDiv(Dot(a, b), Scale) ELSE NaN

----------------------------------------------------------------------------
(* IEEE-754 binary64 scalars: [neg, m], the magnitude m = <<l3, l2, l1, l0>>
   standing for (l3*2^60 + l2*2^40 + l1*2^20 + l0) * 2^-60 *)

RECURSIVE BitLen(_)
BitLen(n) == IF n = 0 THEN 0 ELSE 1 + BitLen(n \div 2)

MagZero == <<0, 0, 0, 0>>

MagLess(a, b) ==
    \E i \in 1..4 : a[i] < b[i] /\ \A j \in 1..(i - 1) : a[j] = b[j]

MagAdd(a, b) ==
    LET s0 == a[4] + b[4]
        s1 == a[3] + b[3] + (s0 \div LimbBase)
        s2 == a[2] + b[2] + (s1 \div LimbBase)
        s3 == a[1] + b[1] + (s2 \div LimbBase)
    IN <<s3, s2 % LimbBase, s1 % LimbBase, s0 % LimbBase>>

\* a - b for a >= b
MagSub(a, b) ==
    LET d0 == a[4] - b[4]
        d1 == a[3] - b[3] + (d0 \div LimbBase)
        d2 == a[2] - b[2] + (d1 \div LimbBase)
        d3 == a[1] - b[1] + (d2 \div LimbBase)
    IN <<d3, d2 % LimbBase, d1 % LimbBase, d0 % LimbBase>>

\* number of low bits a 53-bit significand cannot hold
DropBits(m) ==
    LET len == IF m[1] > 0 THEN 60 + BitLen(m[1])
               ELSE IF m[2] > 0 THEN 40 + BitLen(m[2])
               ELSE IF m[3] > 0 THEN 20 + BitLen(m[3])
               ELSE BitLen(m[4])
    IN IF len > 53 THEN len - 53 ELSE 0

\* round to nearest, ties to even; sticky: nonzero bits below 2^-60
Round53(m, sticky) ==
    LET nd   == DropBits(m)
        p    == 2^nd
        low  == m[4] % p
        half == p \div 2
        odd  == (m[4] \div p) % 2 = 1
        up   == nd > 0 /\ (low > half \/ (low = half /\ (sticky \/ odd)))
        base == <<m[1], m[2], m[3], m[4] - low>>
    IN IF up THEN MagAdd(base, <<0, 0, 0, p>>) ELSE base

\* float("k/1000"): the binary64 nearest to the decimal k thousandths
DFromMilli(k) ==
    LET a  == IF k < 0 THEN -k ELSE k
        r3 == a % 1000
        q2 == (r3 * LimbBase) \div 1000
        r2 == (r3 * LimbBase) % 1000
        q1 == (r2 * LimbBase) \div 1000
        r1 == (r2 * LimbBase) % 1000
        q0 == (r1 * LimbBase) \div 1000
        r0 == (r1 * LimbBase) % 1000
    IN [neg |-> k < 0, m |-> Round53(<<a \div 1000, q2, q1, q0>>, r0 # 0)]

DNeg(x) == IF x.m = MagZero THEN x ELSE [neg |-> ~x.neg, m |-> x.m]

\* x + y in binary64
DAdd(x, y) ==
    IF x.neg = y.neg
    THEN [neg |-> x.neg, m |-> Round53(MagAdd(x.m, y.m), FALSE)]
    ELSE IF x.m = y.m THEN [neg |-> FALSE, m |-> MagZero]
    ELSE IF MagLess(y.m, x.m)
         THEN [neg |-> x.neg, m |-> Round53(MagSub(x.m, y.m), FALSE)]
         ELSE [neg |-> y.neg, m |-> Round53(MagSub(y.m, x.m), FALSE)]

\* x - y in binary64
DSub(x, y) == DAdd(x, DNeg(y))

\* x < y
DLess(x, y) ==
    IF x.neg /\ ~y.neg THEN x.m # MagZero \/ y.m # MagZero
    ELSE IF ~x.neg /\ y.neg THEN FALSE
    ELSE IF x.neg THEN MagLess(y.m, x.m)
    ELSE MagLess(x.m, y.m)

\* x >= y
DGe(x, y) == ~DLess(x, y)

\* float(np.dot(a, b)): the similarity as the scalar that is compared
SimValue(s) == DFromMilli(RoundDiv(s * 1000, Scale))

----------------------------------------------------------------------------
(* Insertion-ordered dicts are sequences of records without repeated keys *)

RECURSIVE SeqSum(_)
SeqSum(q) == IF Len(q) = 0 THEN 0 ELSE q[1] + SeqSum(Tail(q))

Range(q) == {q[i] : i \in 1..Len(q)}

\* position of the entry whose field "label" is k, 0 when absent
LabelIndex(d, k) ==
    IF \E i \in 1..Len(d) : d[i].label = k
    THEN CHOOSE i \in 1..Len(d) : d[i].label = k
    ELSE 0

SpkIndex(d, k) ==
    IF \E i \in 1..Len(d) : d[i].spk = k
    THEN CHOOSE i \in 1..Len(d) : d[i].spk = k
    ELSE 0

Labels(d) == {d[i].label : i \in 1..Len(d)}

Spks(d) == {d[i].spk : i \in 1..Len(d)}

----------------------------------------------------------------------------
(* The state of one run of main() *)

VARIABLES
    args,                   \* parse_args(): the configuration of the run
    segments,               \* the segments of --speakers-json, in file order
    existing_file,          \* the "speakers" of --existing-embeddings
    pc,                     \* position of main()
    existing,               \* global label -> {embedding, duration}
    new_profiles,           \* file speaker -> {embedding, duration, segments}
    ci, it, segs, iter_logs,\* intra-clean: speaker index, round, pool, log
    intra_clean_log,
    local_merge_history,
    local_original_mapping,
    max_index,
    mapping,                \* file speaker -> global label
    threshold,
    cur,                    \* the lowered threshold of the auto-lower loop
    idx,                    \* position of a loop over new_profiles
    thr,                    \* parameter of the running attempt_merge
    existing_before_new,
    diag_sim_matrix,
    out,                    \* what the run wrote to --output
    passes,                 \* per call of attempt_merge: its thr and merged_count
    last_match,             \* history: the match attempt_merge made last
    created                 \* history: the labels created, in order

\* The file converter service (src/file_converter/main.py), a program of its
\* own: the OCR language download endpoint and its background tasks.
VARIABLES
    download_status,        \* main.download_status: language -> status record
    installed,              \* the languages with a .traineddata file
    tasks,                  \* background tasks added and not yet finished
    responses               \* history: the answers of the POST handler

ocr_vars == <<download_status, installed, tasks, responses>>

diarization_vars ==
        <<args, segments, existing_file, pc, existing, new_profiles, ci, it,
          segs, iter_logs, intra_clean_log, local_merge_history,
          local_original_mapping, max_index, mapping, threshold, cur, idx, thr,
          existing_before_new, diag_sim_matrix, out, passes, last_match,
          created>>

vars == <<diarization_vars, ocr_vars>>

NoEmb == <<>>

NoOutput == [kind |-> "none"]

NoMatch == [kind |-> "none"]

----------------------------------------------------------------------------
(* Grouping and profile building *)

\* the speakers of the segments in order of first appearance
RECURSIVE FirstSeen(_, _)
FirstSeen(q, seen) ==
    IF Len(q) = 0 THEN <<>>
    ELSE IF q[1].dur <= 0 \/ q[1].speaker \in seen THEN FirstSeen(Tail(q), seen)
    ELSE <<q[1].speaker>> \o FirstSeen(Tail(q), seen \cup {q[1].speaker})

\* spk_map: speaker -> its segments with end > start, in file order
group_segments_by_speaker(q) ==
    LET order == FirstSeen(q, {})
        Of(k) == LET Mine(sg) == sg.speaker = k /\ sg.dur > 0
                 IN SelectSeq(q, Mine)
    IN [i \in 1..Len(order) |-> [spk |-> order[i], seg_list |-> Of(order[i])]]

\* the loop of extract_embeddings over the segments that yield a finite embedding
RECURSIVE ExtractLoop(_, _)
ExtractLoop(seg_list, acc) ==
    IF Len(seg_list) = 0 THEN acc
    ELSE LET sg == seg_list[1]
         IN IF sg.emb = NoEmb THEN ExtractLoop(Tail(seg_list), acc)
            ELSE ExtractLoop(Tail(seg_list),
                   [vec_acc   |-> VAdd(acc.vec_acc, VScale(sg.emb, sg.dur)),
                    total_dur |-> acc.total_dur + sg.dur,
                    seg_embeddings |-> Append(acc.seg_embeddings,
                        [embedding     |-> Normalize(sg.emb),
                         raw_embedding |-> sg.emb,
                         duration      |-> sg.dur])])

\* [none, centroid, total_dur, seg_embeddings]
extract_embeddings(seg_list) ==
    LET r == ExtractLoop(seg_list,
                 [vec_acc |-> <<0, 0>>, total_dur |-> 0, seg_embeddings |-> <<>>])
    IN IF r.total_dur = 0 \/ r.seg_embeddings = <<>>
       THEN [none |-> TRUE, centroid |-> <<0, 0>>, total_dur |-> 0,
             seg_embeddings |-> <<>>]
       ELSE [none |-> FALSE,
             centroid |-> Normalize(VDiv(r.vec_acc, r.total_dur)),
             total_dur |-> r.total_dur,
             seg_embeddings |-> r.seg_embeddings]

RECURSIVE BuildLoop(_)
BuildLoop(groups) ==
    IF Len(groups) = 0 THEN <<>>
    ELSE LET e == extract_embeddings(groups[1].seg_list)
         IN (IF e.none THEN <<>>
             ELSE <<[spk |-> groups[1].spk, embedding |-> e.centroid,
                     duration |-> e.total_dur, segments |-> e.seg_embeddings]>>)
            \o BuildLoop(Tail(groups))

\* load_existing_embeddings: entries with an empty or zero embedding are left
\* out, the others are normalized; a repeated label keeps its first position
RECURSIVE LoadLoop(_, _)
LoadLoop(items, acc) ==
    IF Len(items) = 0 THEN acc
    ELSE LET item == items[1]
             e    == [label |-> item.speaker,
                      embedding |-> Normalize(item.embedding),
                      duration |-> item.duration]
             i    == LabelIndex(acc, item.speaker)
         IN IF \/ item.embedding = <<>>
               \/ IsFinite(item.embedding) /\ Norm10(item.embedding) = 0
            THEN LoadLoop(Tail(items), acc)
            ELSE IF i = 0 THEN LoadLoop(Tail(items), Append(acc, e))
            ELSE LoadLoop(Tail(items), [acc EXCEPT ![i] = e])

load_existing_embeddings(items) == LoadLoop(items, <<>>)

----------------------------------------------------------------------------
(* Intra-speaker cleaning: one round of the loop over "it" *)

RECURSIVE InsertSorted(_, _)
InsertSorted(q, x) ==
    IF Len(q) = 0 THEN <<x>>
    ELSE IF x <= q[1] THEN <<x>> \o q
    ELSE <<q[1]>> \o InsertSorted(Tail(q), x)

RECURSIVE SortInts(_)
SortInts(q) == IF Len(q) = 0 THEN <<>> ELSE InsertSorted(SortInts(Tail(q)), q[1])

\* 100 * np.percentile(values, pct), linear interpolation between neighbours
Percentile100(values, pct) ==
    LET a   == SortInts(values)
        pos == pct * (Len(a) - 1)
        lo  == (pos \div 100) + 1
        rem == pos % 100
    IN IF rem = 0 THEN 100 * a[lo]
       ELSE 100 * a[lo] + rem * (a[lo + 1] - a[lo])

\* the duration-weighted centroid of a pool of segments
RECURSIVE WeightedAcc(_)
WeightedAcc(pool) ==
    IF Len(pool) = 0 THEN [acc |-> <<0, 0>>, total_dur |-> 0, n |-> 0]
    ELSE LET r  == WeightedAcc(SubSeq(pool, 1, Len(pool) - 1))
             sg == pool[Len(pool)]
         IN IF sg.duration <= 0 THEN r
            ELSE [acc |-> VAdd(r.acc, VScale(sg.raw_embedding, sg.duration)),
                  total_dur |-> r.total_dur + sg.duration,
                  n |-> r.n + 1]

PoolCentroid(pool) ==
    LET r == WeightedAcc(pool)
    IN [none |-> r.n = 0 \/ r.total_dur = 0,
        centroid |-> IF r.total_dur = 0 THEN <<0, 0>>
                     ELSE Normalize(VDiv(r.acc, r.total_dur)),
        total_dur |-> r.total_dur]

\* the guard is left out
BelowMinimumNever(n, removed) == FALSE

\* "if len(segs) - len(remove_set) < args.intra_clean_min_segments: break"
BelowMinimum(n, removed) == n - removed < args.intra_clean_min_segments

\* the loop over "it" has no last round
LastRoundNever(round) == FALSE

\* "for it in range(1, args.intra_clean_max_iter + 1)": the round is the last
LastRound(round) == round >= args.intra_clean_max_iter

\* a segment at the cutoff is removed as well
BelowInclusive(sim, cutoff) == 100 * sim <= cutoff

\* "if sim < cutoff" of remove_set, the cutoff being 100 times the percentile
Below(sim, cutoff) == 100 * sim < cutoff

\* one round: [stop, removed anything, the pool after it, its log entry]
CleanRound(pool, round) ==
    LET c        == PoolCentroid(pool)
        sims     == [i \in 1..Len(pool) |-> cosine(pool[i].embedding, c.centroid)]
        cutoff   == Percentile100(sims, args.intra_clean_percentile)
        remove   == {i \in 1..Len(pool) : Below(sims[i], cutoff)}
        keepIdx  == {i \in 1..Len(pool) : i \notin remove}
        Kept(i)  == i \in keepIdx
        new_idx  == SelectSeq([i \in 1..Len(pool) |-> i], Kept)
        new_segs == [k \in 1..Len(new_idx) |-> pool[new_idx[k]]]
        sims_after == [k \in 1..Len(new_idx) |-> sims[new_idx[k]]]
        entry    == [iter |-> round, n_before |-> Len(pool),
                     n_after |-> Len(new_segs), cutoff |-> cutoff,
                     removed |-> Cardinality(remove),
                     mean_before |-> RoundDiv(SeqSum(sims), Len(sims)),
                     mean_after |-> IF Len(sims_after) = 0
                                    THEN RoundDiv(SeqSum(sims), Len(sims))
                                    ELSE RoundDiv(SeqSum(sims_after), Len(sims_after))]
        broke    == \/ c.none
                    \/ Len(pool) < args.intra_clean_min_segments + 1
                    \/ BelowMinimum(Len(pool), Cardinality(remove))
                    \/ remove = {}
    IN IF c.none \/ Len(pool) < args.intra_clean_min_segments + 1
       THEN [stop |-> TRUE, changed |-> FALSE, pool |-> pool, entry |-> <<>>]
       ELSE IF broke
       THEN [stop |-> TRUE, changed |-> FALSE, pool |-> pool, entry |-> <<>>]
       ELSE [stop |-> \/ LastRound(round)
                      \/ Len(new_segs) < args.intra_clean_min_segments + 1,
             changed |-> TRUE, pool |-> new_segs, entry |-> <<entry>>]

\* "更新 profile": the profile after the rounds of one speaker
CleanedProfile(prof, pool, logs) ==
    LET c == PoolCentroid(pool)
    IN IF logs # <<>> /\ ~c.none
       THEN [prof EXCEPT !.embedding = c.centroid, !.duration = c.total_dur,
                         !.segments = pool]
       ELSE prof

----------------------------------------------------------------------------
(* Local merge: the most similar pair of file speakers *)

recompute_pair_similarity(a_key, b_key) ==
    cosine(new_profiles[SpkIndex(new_profiles, a_key)].embedding,
           new_profiles[SpkIndex(new_profiles, b_key)].embedding)

\* the pairs (i, j), i < j, in the order the two loops visit them
PairBefore(p, q) == p[1] < q[1] \/ (p[1] = q[1] /\ p[2] < q[2])

\* best_pair as positions of new_profiles, <<>> when there is none
BestPair ==
    LET n     == Len(new_profiles)
        pairs == {p \in (1..n) \X (1..n) : p[1] < p[2]}
        Sim(p) == recompute_pair_similarity(new_profiles[p[1]].spk,
                                            new_profiles[p[2]].spk)
        valid == {p \in pairs : Sim(p) > -2 * Scale}
    IN IF valid = {} THEN <<>>
       ELSE CHOOSE p \in valid :
              \A q \in valid \ {p} :
                 Sim(p) > Sim(q) \/ (Sim(p) = Sim(q) /\ PairBefore(p, q))

\* the merged-away profile is kept
RemoveProfileKept(profiles, remove) == profiles

\* "del new_profiles[remove]"
RemoveProfile(profiles, remove) ==
    LET NotRemoved(pr) == pr.spk # remove
    IN SelectSeq(profiles, NotRemoved)

\* the duration of the first profile alone
TotalDurFirst(dur_a, dur_b) == dur_a

\* "total_dur = dur_a + dur_b if (dur_a + dur_b) > 0 else 1.0"
TotalDur(dur_a, dur_b) == IF dur_a + dur_b > 0 THEN dur_a + dur_b ELSE 1

\* the profiles after merging the pair at positions <<i, j>>
MergedProfiles(pair) ==
    LET a_prof == new_profiles[pair[1]]
        b_prof == new_profiles[pair[2]]
        dur_a  == a_prof.duration
        dur_b  == b_prof.duration
        total_dur == TotalDur(dur_a, dur_b)
        merged == Normalize(VDiv(VAdd(VScale(a_prof.embedding, dur_a),
                                      VScale(b_prof.embedding, dur_b)), total_dur))
        keep   == IF StrLeq(a_prof.spk, b_prof.spk) THEN a_prof.spk ELSE b_prof.spk
        remove == IF StrLeq(a_prof.spk, b_prof.spk) THEN b_prof.spk ELSE a_prof.spk
        upd    == [i \in 1..Len(new_profiles) |->
                     IF new_profiles[i].spk = keep
                     THEN [spk |-> keep, embedding |-> merged,
                           duration |-> total_dur,
                           segments |-> a_prof.segments \o b_prof.segments]
                     ELSE new_profiles[i]]
    IN [profiles |-> RemoveProfile(upd, remove), keep |-> keep, remove |-> remove,
        total_dur |-> total_dur, a_key |-> a_prof.spk, b_key |-> b_prof.spk,
        similarity |-> cosine(a_prof.embedding, b_prof.embedding)]

----------------------------------------------------------------------------
(* Matching against the global speakers *)

\* an entry as similar as the best one so far replaces it
SimGreaterOrEqual(sim, best_sim) == sim # NaN /\ best_sim # NaN /\ sim >= best_sim

\* "if sim > best_sim": a comparison with NaN is false
SimGreater(sim, best_sim) == sim # NaN /\ best_sim # NaN /\ sim > best_sim

\* "for label, info in existing.items()" from entry i on
RECURSIVE MatchLoop(_, _, _, _)
MatchLoop(new_centroid, d, i, best) ==
    IF i > Len(d) THEN best
    ELSE LET sim == cosine(new_centroid, d[i].embedding)
         IN IF SimGreater(sim, best.best_sim)
            THEN MatchLoop(new_centroid, d, i + 1,
                           [best_label |-> d[i].label, best_sim |-> sim])
            ELSE MatchLoop(new_centroid, d, i + 1, best)

\* (best_label, best_sim), starting from (None, -2.0)
match_existing(new_centroid, d) ==
    MatchLoop(new_centroid, d, 1, [best_label |-> <<>>, best_sim |-> -2 * Scale])

\* "best_sim >= thr"
\* a strict comparison in place of >=
ReachesStrict(best_sim, t) == DLess(t, SimValue(best_sim))

Reaches(best_sim, t) == DGe(SimValue(best_sim), t)

\* the entry of the matched global speaker after the weighted merge
\* the plain mean of the two centroids in place of the duration-weighted one
MergeIntoUnweighted(old, centroid, new_dur) ==
    [label |-> old.label,
     embedding |-> Normalize(VDiv(VAdd(old.embedding, centroid), 2)),
     duration |-> old.duration + new_dur]

\* the centroid is merged and the duration of the entry is left as it was
MergeIntoSameDuration(old, centroid, new_dur) ==
    [label |-> old.label,
     embedding |-> Normalize(VDiv(VAdd(VScale(old.embedding, old.duration),
                                       VScale(centroid, new_dur)),
                                  old.duration + new_dur)),
     duration |-> old.duration]

MergeInto(old, centroid, new_dur) ==
    IF old.duration + new_dur > 0
    THEN [label |-> old.label,
          embedding |-> Normalize(VDiv(VAdd(VScale(old.embedding, old.duration),
                                            VScale(centroid, new_dur)),
                                       old.duration + new_dur)),
          duration |-> old.duration + new_dur]
    ELSE old

\* the first pass is taken to have matched nothing
AnyMatchedNever == FALSE

\* the test "if spk in mapping: continue" is skipped
InMappingNever(k) == FALSE

\* "any(v in existing for v in mapping.values())"
AnyMatched == \E i \in 1..Len(mapping) : mapping[i].global \in Labels(existing)

InMapping(k) == \E i \in 1..Len(mapping) : mapping[i].spk = k

\* the largest number of a label SPK<digits>, -1 when there is none
MaxIndex(d) ==
    LET nums == {ParseInt(SubSeq(d[i].label, 4, Len(d[i].label))) :
                   i \in {j \in 1..Len(d) :
                            /\ Len(d[j].label) >= 3
                            /\ SubSeq(d[j].label, 1, 3) = StrSPK
                            /\ IsDigitStr(SubSeq(d[j].label, 4, Len(d[j].label)))}}
    IN IF nums = {} THEN -1 ELSE CHOOSE n \in nums : \A k \in nums : k <= n

\* f"SPK{max_index:02d}"
\* the label is built from max_index, without the increment
NewLabelNoIncrement(n) == StrSPK \o Format02d(IF n > 0 THEN n - 1 ELSE 0)

NewLabel(n) == StrSPK \o Format02d(n)

\* d[k] = v on an insertion-ordered dict
DictSet(d, k, v) ==
    LET i == LabelIndex(d, k)
    IN IF i = 0 THEN Append(d, v) ELSE [d EXCEPT ![i] = v]

\* row of the similarity matrix of one file speaker
build_similarity_matrix(profiles, d) ==
    IF d = <<>> THEN <<>>
    ELSE [i \in 1..Len(profiles) |->
            [spk |-> profiles[i].spk,
             row |-> [j \in 1..Len(d) |->
                        [label |-> d[j].label,
                         sim |-> cosine(profiles[i].embedding, d[j].embedding)]]]]

\* file_speaker_best: per row the first of the finite entries with the largest
\* similarity; best_global None and best_sim None when the row has none
BestReport(matrix) ==
    [i \in 1..Len(matrix) |->
        LET row    == matrix[i].row
            finite == {j \in 1..Len(row) : row[j].sim # NaN}
            best   == CHOOSE j \in finite :
                        \A k \in finite :
                           row[j].sim > row[k].sim \/ (row[j].sim = row[k].sim /\ j <= k)
        IN IF finite = {}
           THEN [file_speaker |-> matrix[i].spk, none |-> TRUE,
                 best_global |-> <<>>, best_sim |-> NaN]
           ELSE [file_speaker |-> matrix[i].spk, none |-> FALSE,
                 best_global |-> row[best].label, best_sim |-> row[best].sim]]

RECURSIVE InsertByLabel(_, _)
InsertByLabel(q, e) ==
    IF Len(q) = 0 THEN <<e>>
    ELSE IF StrLess(e.label, q[1].label) THEN <<e>> \o q
    ELSE <<q[1]>> \o InsertByLabel(Tail(q), e)

\* sorted(existing.items())
RECURSIVE SortedByLabel(_)
SortedByLabel(d) ==
    IF Len(d) = 0 THEN <<>> ELSE InsertByLabel(SortedByLabel(Tail(d)), d[1])

----------------------------------------------------------------------------
(* The inputs of a run *)

E1 == <<Scale, 0>>
E2 == <<(8 * Scale) \div 10, (6 * Scale) \div 10>>
E3 == <<(6 * Scale) \div 10, (8 * Scale) \div 10>>
E4 == <<0, Scale>>

\* file speakers "S0", "S1", ...
LocalLabel(i) == <<83, 48 + i>>

SPK00 == <<83, 80, 75, 48, 48>>
SPK01 == <<83, 80, 75, 48, 49>>
SPK09 == <<83, 80, 75, 48, 57>>
SPK7  == <<83, 80, 75, 55>>
SPKbare == <<83, 80, 75>>
ALabel == <<65, 76>>

Entry(l, e, d) == [speaker |-> l, embedding |-> e, duration |-> d]

Registries ==
    { <<>>,
      <<Entry(SPK00, E1, 10)>>,
      <<Entry(SPK00, E1, 10), Entry(SPK01, E3, 10)>>,
      <<Entry(SPK01, E4, 10), Entry(SPK00, E4, 0)>>,
      <<Entry(SPK7, E4, 5), Entry(ALabel, E1, 10)>>,
      <<Entry(SPK09, E3, 10), Entry(SPKbare, E4, 10)>> }

SmallRegistries == { <<>>, <<Entry(SPK00, E1, 10)>> }

Seg(d, e) == [dur |-> d, emb |-> e]

\* the segments of one speaker: one segment, with or without an embedding
SingleOptions == { <<Seg(10, NoEmb)>>, <<Seg(10, E1)>>, <<Seg(10, E2)>> }

MergeOptions == { <<Seg(10, E1)>>, <<Seg(10, E2)>>, <<Seg(20, E4)>> }

\* pools of 1..MaxSegs segments of a speaker
PoolChoices == { Seg(5, E1), Seg(5, E4), Seg(5, NoEmb) }

PoolOptions == UNION { [1..n -> PoolChoices] : n \in 1..MaxSegs }

\* the orders in which n speakers first appear
Orders(n) == { p \in [1..n -> 0..(n - 1)] : \A i, j \in 1..n : p[i] = p[j] => i = j }

\* the segment list: the speakers in order p, speaker i with segments opt[i]
RECURSIVE SegmentList(_, _, _)
SegmentList(p, opt, k) ==
    IF k > Len(p) THEN <<>>
    ELSE [i \in 1..Len(opt[p[k]]) |->
            [speaker |-> LocalLabel(p[k]), dur |-> opt[p[k]][i].dur,
             emb |-> opt[p[k]][i].emb]]
         \o SegmentList(p, opt, k + 1)

Args(t, auto, lo, step, target, clean) ==
    [threshold |-> t, auto_lower_threshold |-> auto, auto_lower_min |-> lo,
     auto_lower_step |-> step, target_local_speakers |-> target,
     intra_clean |-> clean, intra_clean_percentile |-> 25,
     intra_clean_min_segments |-> 2, intra_clean_max_iter |-> 2]

\* (threshold, auto_lower_min, auto_lower_step) in thousandths
Schedules == { <<750, 600, 50>>, <<800, 600, 50>>, <<850, 600, 50>>,
               <<750, 500, 250>> }

\* up to two speakers against every registry, no cleaning, no local merge
MatchInputs ==
    { [segments |-> SegmentList(p, opt, 1), existing_file |-> r,
       args |-> Args(sc[1], auto, sc[2], sc[3], 0, FALSE)] :
        p \in Orders(0) \cup Orders(1) \cup Orders(2),
        opt \in [0..1 -> SingleOptions], r \in Registries,
        sc \in Schedules, auto \in BOOLEAN }

\* MaxLocal speakers merged down to a target
MergeInputs ==
    { [segments |-> SegmentList(p, opt, 1), existing_file |-> r,
       args |-> Args(800, FALSE, 600, 50, target, FALSE)] :
        p \in Orders(MaxLocal), opt \in [0..(MaxLocal - 1) -> MergeOptions],
        r \in SmallRegistries, target \in 1..(MaxLocal - 1) }

\* a speaker with a pool of segments and a second speaker, every combination
\* of cleaning, local merge and auto-lowering
CombinedInputs ==
    { [segments |-> SegmentList(p, [i \in 0..1 |-> IF i = 0 THEN pool
                                                   ELSE <<Seg(10, E2)>>], 1),
       existing_file |-> r,
       args |-> Args(850, auto, 600, 50, target, clean)] :
        p \in Orders(2), pool \in PoolOptions, r \in SmallRegistries,
        auto \in BOOLEAN, target \in 0..1, clean \in BOOLEAN }

\* one speaker with a full pool, cleaned under several percentiles, minima
\* and numbers of rounds
CleanPools == [1..MaxSegs -> {Seg(5, E1), Seg(5, E2), Seg(10, E4)}]

CleanInputs ==
    { [segments |-> SegmentList(<<0>>, [i \in 0..0 |-> pool], 1),
       existing_file |-> <<>>,
       args |-> [Args(800, FALSE, 600, 50, 0, TRUE) EXCEPT
                    !.intra_clean_percentile = pct,
                    !.intra_clean_min_segments = lim[1],
                    !.intra_clean_max_iter = lim[2]]] :
        pool \in CleanPools, pct \in {25, 75},
        lim \in {<<1, 1>>, <<1, 2>>, <<2, 2>>} }

\* finite embeddings whose weighted sum has norm 0: the zero vector, and a
\* vector with its opposite
E0 == <<0, 0>>
ENeg == <<0 - Scale, 0>>

DegenerateInputs ==
    { [segments |-> SegmentList(p, [i \in 0..1 |-> IF i = 0 THEN a ELSE b], 1),
       existing_file |-> r,
       args |-> Args(800, FALSE, 600, 50, target, FALSE)] :
        p \in Orders(2),
        a \in { <<Seg(10, E0)>>, <<Seg(10, E1), Seg(10, ENeg)>>, <<Seg(10, E1)>> },
        b \in { <<Seg(10, ENeg)>>, <<Seg(10, E2)>> },
        r \in SmallRegistries, target \in 0..1 }

\* a registry file that holds a value that is not a number
ENaN == <<NaN, NaN>>

NaNRegistries ==
    { <<Entry(SPK00, ENaN, 10)>>,
      <<Entry(SPK00, ENaN, 10), Entry(SPK01, E1, 10)>>,
      <<Entry(SPK00, E3, 10), Entry(SPK01, ENaN, 10), Entry(SPK7, E1, 10)>> }

NaNInputs ==
    { [segments |-> SegmentList(p, [i \in 0..1 |-> <<Seg(10, e)>>], 1),
       existing_file |-> r,
       args |-> Args(800, auto, 600, 50, 0, FALSE)] :
        p \in Orders(1) \cup Orders(2), e \in {E1, E2}, r \in NaNRegistries,
        auto \in BOOLEAN }

\* auto-lowering with a step of zero and with a negative step, against a
\* registry entry that the speaker does not reach
StepInputs ==
    { [segments |-> SegmentList(<<0>>, [i \in 0..0 |-> <<Seg(10, e)>>], 1),
       existing_file |-> <<Entry(SPK00, E4, 10)>>,
       args |-> Args(750, TRUE, 600, step, 0, FALSE)] :
        e \in {E1, E2}, step \in {0, 0 - 50} }

\* the runs whose ending is checked: a step of zero, a positive step with
\* cleaning and local merge against a registry, no segments, and no embedding
LiveInputs ==
    {x \in StepInputs : x.args.auto_lower_step = 0}
      \cup { [segments |-> SegmentList(p, [i \in 0..1 |->
                                 IF i = 0 THEN <<Seg(5, E1), Seg(5, E4), Seg(5, E4)>>
                                 ELSE <<Seg(10, E2)>>], 1),
              existing_file |-> <<Entry(SPK00, E1, 10)>>,
              args |-> Args(850, TRUE, 600, 50, target, TRUE)] :
               p \in Orders(2), target \in 0..1 }
      \cup { [segments |-> SegmentList(p, [i \in 0..0 |-> <<Seg(10, NoEmb)>>], 1),
              existing_file |-> <<>>,
              args |-> Args(750, FALSE, 600, 50, 0, FALSE)] :
               p \in Orders(0) \cup Orders(1) }

Inputs == MatchInputs \cup MergeInputs \cup CombinedInputs \cup CleanInputs
          \cup DegenerateInputs \cup NaNInputs \cup StepInputs

----------------------------------------------------------------------------
(* The run *)

\* two of the nine languages of LanguagePackManager.AVAILABLE_LANGS
AVAILABLE_LANGS == {"eng", "jpn"}

\* the languages requested: the available ones and one that is not
RequestLangs == AVAILABLE_LANGS \cup {"invalid_lang"}

\* a language that is no key of download_status
NoStatus == [status |-> "absent"]

\* the converter service before any request; no language installed
OcrIdle ==
    /\ download_status = [l \in RequestLangs |-> NoStatus]
    /\ installed = {}
    /\ tasks = <<>>
    /\ responses = <<>>

\* the state in which main starts on one of a set of inputs
RunFrom(inputs) ==
    /\ \E inp \in inputs :
          /\ args = inp.args
          /\ segments = inp.segments
          /\ existing_file = inp.existing_file
    /\ OcrIdle
    /\ pc = "start"
    /\ existing = <<>>
    /\ new_profiles = <<>>
    /\ ci = 0 /\ it = 0 /\ segs = <<>> /\ iter_logs = <<>>
    /\ intra_clean_log = <<>>
    /\ local_merge_history = <<>>
    /\ local_original_mapping = <<>>
    /\ max_index = -1
    /\ mapping = <<>>
    /\ threshold = DFromMilli(0)
    /\ cur = DFromMilli(0)
    /\ idx = 0
    /\ thr = DFromMilli(0)
    /\ existing_before_new = <<>>
    /\ diag_sim_matrix = <<>>
    /\ out = NoOutput
    /\ passes = <<>>
    /\ last_match = NoMatch
    /\ created = <<>>

Init == RunFrom(Inputs)

\* "if not segments": the empty result is written and the run returns
EmptySegments ==
    /\ pc = "start"
    /\ segments = <<>>
    /\ out' = [kind |-> "empty", error |-> "no segments", speakers |-> <<>>,
               segment_embeddings |-> <<>>, file_speakers_summary |-> <<>>]
    /\ pc' = "done"
    /\ UNCHANGED <<ocr_vars, args, segments, existing_file, existing, new_profiles, ci, it,
                   segs, iter_logs, intra_clean_log, local_merge_history,
                   local_original_mapping, max_index, mapping, threshold, cur,
                   idx, thr, existing_before_new, diag_sim_matrix, passes,
                   last_match, created>>

\* existing = load_existing_embeddings(...); new_profiles built per speaker
BuildProfiles ==
    /\ pc = "start"
    /\ segments # <<>>
    /\ existing' = load_existing_embeddings(existing_file)
    /\ new_profiles' = BuildLoop(group_segments_by_speaker(segments))
    /\ intra_clean_log' = <<>>
    /\ ci' = 1
    /\ pc' = IF args.intra_clean /\ new_profiles' # <<>> THEN "clean" ELSE "merge"
    /\ UNCHANGED <<ocr_vars, args, segments, existing_file, it, segs, iter_logs,
                   local_merge_history, local_original_mapping, max_index,
                   mapping, threshold, cur, idx, thr, existing_before_new,
                   diag_sim_matrix, out, passes, last_match, created>>

\* "for spk, prof in list(new_profiles.items())": the next speaker
CleanSpeaker ==
    /\ pc = "clean"
    /\ ci <= Len(new_profiles)
    /\ IF \/ Len(new_profiles[ci].segments) < args.intra_clean_min_segments + 1
          \/ args.intra_clean_max_iter < 1
       THEN /\ ci' = ci + 1
            /\ UNCHANGED <<pc, it, segs, iter_logs>>
       ELSE /\ segs' = new_profiles[ci].segments
            /\ it' = 1
            /\ iter_logs' = <<>>
            /\ pc' = "clean_iter"
            /\ UNCHANGED ci
    /\ UNCHANGED <<ocr_vars, args, segments, existing_file, existing, new_profiles,
                   intra_clean_log, local_merge_history, local_original_mapping,
                   max_index, mapping, threshold, cur, idx, thr,
                   existing_before_new, diag_sim_matrix, out, passes,
                   last_match, created>>

\* one round of "for it in range(1, max_iter + 1)"; after the last round the
\* profile is updated and the log entry of the speaker appended
CleanIter ==
    /\ pc = "clean_iter"
    /\ LET r    == CleanRound(segs, it)
           logs == iter_logs \o r.entry
       IN IF r.stop
          THEN /\ new_profiles' =
                     [new_profiles EXCEPT ![ci] = CleanedProfile(@, r.pool, logs)]
               /\ intra_clean_log' =
                     IF logs # <<>>
                     THEN Append(intra_clean_log,
                                 [speaker |-> new_profiles[ci].spk, iterations |-> logs])
                     ELSE intra_clean_log
               /\ ci' = ci + 1
               /\ pc' = "clean"
               /\ segs' = r.pool
               /\ iter_logs' = logs
               /\ UNCHANGED it
          ELSE /\ segs' = r.pool
               /\ iter_logs' = logs
               /\ it' = it + 1
               /\ UNCHANGED <<new_profiles, intra_clean_log, ci, pc>>
    /\ UNCHANGED <<ocr_vars, args, segments, existing_file, existing, local_merge_history,
                   local_original_mapping, max_index, mapping, threshold, cur,
                   idx, thr, existing_before_new, diag_sim_matrix, out, passes,
                   last_match, created>>

\* after the last speaker: speakers left without segments are removed
CleanDone ==
    /\ pc = "clean"
    /\ ci > Len(new_profiles)
    /\ LET HasSegments(pr) == pr.segments # <<>>
       IN new_profiles' = SelectSeq(new_profiles, HasSegments)
    /\ pc' = "merge"
    /\ UNCHANGED <<ocr_vars, args, segments, existing_file, existing, ci, it, segs,
                   iter_logs, intra_clean_log, local_merge_history,
                   local_original_mapping, max_index, mapping, threshold, cur,
                   idx, thr, existing_before_new, diag_sim_matrix, out, passes,
                   last_match, created>>

\* local_merge_history = [], local_original_mapping = {spk: spk}
MergeInit ==
    /\ pc = "merge"
    /\ local_merge_history' = <<>>
    /\ local_original_mapping' =
          [i \in 1..Len(new_profiles) |->
              [orig |-> new_profiles[i].spk, cur |-> new_profiles[i].spk]]
    /\ pc' = "merge_loop"
    /\ UNCHANGED <<ocr_vars, args, segments, existing_file, existing, new_profiles, ci, it,
                   segs, iter_logs, intra_clean_log, max_index, mapping,
                   threshold, cur, idx, thr, existing_before_new,
                   diag_sim_matrix, out, passes, last_match, created>>

MergeWanted ==
    /\ args.target_local_speakers > 0
    /\ Len(new_profiles) > args.target_local_speakers
    /\ BestPair # <<>>

\* only the entry of the removed label itself is redirected
UpdateTraceDirect(m, remove, keep) ==
    [i \in 1..Len(m) |->
        IF m[i].orig = remove THEN [m[i] EXCEPT !.cur = keep] ELSE m[i]]

\* "for orig, cur in list(local_original_mapping.items()): if cur == remove:
\* local_original_mapping[orig] = keep"
UpdateTrace(m, remove, keep) ==
    [i \in 1..Len(m) |->
        IF m[i].cur = remove THEN [m[i] EXCEPT !.cur = keep] ELSE m[i]]

\* one pass of "while len(new_profiles) > args.target_local_speakers"
MergeStep ==
    /\ pc = "merge_loop"
    /\ MergeWanted
    /\ LET m == MergedProfiles(BestPair)
       IN /\ new_profiles' = m.profiles
          /\ local_original_mapping' =
                UpdateTrace(local_original_mapping, m.remove, m.keep)
          /\ local_merge_history' = Append(local_merge_history,
                [merge_pair |-> <<m.a_key, m.b_key>>, kept |-> m.keep,
                 removed |-> m.remove, similarity |-> m.similarity,
                 new_duration |-> m.total_dur,
                 remaining_after |-> Len(m.profiles)])
    /\ UNCHANGED <<ocr_vars, args, segments, existing_file, pc, existing, ci, it, segs,
                   iter_logs, intra_clean_log, max_index, mapping, threshold,
                   cur, idx, thr, existing_before_new, diag_sim_matrix, out,
                   passes, last_match, created>>

\* "if not new_profiles": an error is printed, nothing is written
NoProfiles ==
    /\ pc = "merge_loop"
    /\ ~MergeWanted
    /\ new_profiles = <<>>
    /\ pc' = "done"
    /\ UNCHANGED <<ocr_vars, args, segments, existing_file, existing, new_profiles, ci, it,
                   segs, iter_logs, intra_clean_log, local_merge_history,
                   local_original_mapping, max_index, mapping, threshold, cur,
                   idx, thr, existing_before_new, diag_sim_matrix, out, passes,
                   last_match, created>>

\* max_index, mapping = {}, threshold = args.threshold, attempt_merge(threshold)
BeginMatching ==
    /\ pc = "merge_loop"
    /\ ~MergeWanted
    /\ new_profiles # <<>>
    /\ max_index' = MaxIndex(existing)
    /\ mapping' = <<>>
    /\ threshold' = DFromMilli(args.threshold)
    /\ thr' = DFromMilli(args.threshold)
    /\ passes' = <<[thr |-> DFromMilli(args.threshold), merged_count |-> 0]>>
    /\ idx' = 1
    /\ pc' = "attempt"
    /\ UNCHANGED <<ocr_vars, args, segments, existing_file, existing, new_profiles, ci, it,
                   segs, iter_logs, intra_clean_log, local_merge_history,
                   local_original_mapping, cur, existing_before_new,
                   diag_sim_matrix, out, last_match, created>>

\* attempt_merge: the body of "for file_spk, prof in new_profiles.items()"
AttemptStep ==
    /\ pc = "attempt"
    /\ idx <= Len(new_profiles)
    /\ LET prof == new_profiles[idx]
           m    == match_existing(prof.embedding, existing)
           g    == LabelIndex(existing, m.best_label)
       IN IF ~InMapping(prof.spk) /\ existing # <<>> /\ Reaches(m.best_sim, thr)
          THEN /\ existing' = [existing EXCEPT
                                 ![g] = MergeInto(@, prof.embedding, prof.duration)]
               /\ mapping' = Append(mapping, [spk |-> prof.spk, global |-> m.best_label])
               /\ last_match' = [kind |-> "match", spk |-> prof.spk,
                                 label |-> m.best_label, sim |-> m.best_sim,
                                 thr |-> thr, old |-> existing[g],
                                 centroid |-> prof.embedding,
                                 duration |-> prof.duration]
               /\ passes' = [passes EXCEPT ![Len(passes)].merged_count = @ + 1]
          ELSE UNCHANGED <<existing, mapping, last_match, passes>>
    /\ idx' = idx + 1
    /\ UNCHANGED <<ocr_vars, args, segments, existing_file, pc, new_profiles, ci, it, segs,
                   iter_logs, intra_clean_log, local_merge_history,
                   local_original_mapping, max_index, threshold, cur, thr,
                   existing_before_new, diag_sim_matrix, out, created>>

\* the reported threshold stays the configured one
EffectiveThresholdKept(t, c, matched) == t

\* "if any(...): threshold = cur": the threshold the run reports
EffectiveThreshold(t, c, matched) == IF matched THEN c ELSE t

AutoLowerWanted == args.auto_lower_threshold /\ existing # <<>> /\ ~AnyMatched

\* attempt_merge(threshold) has returned: "if args.auto_lower_threshold and
\* existing and not any(...)": cur = threshold - step
FirstPassEnd ==
    /\ pc = "attempt"
    /\ idx > Len(new_profiles)
    /\ Len(passes) = 1
    /\ IF AutoLowerWanted
       THEN /\ cur' = DSub(threshold, DFromMilli(args.auto_lower_step))
            /\ pc' = "lower"
       ELSE /\ pc' = "diag"
            /\ UNCHANGED cur
    /\ UNCHANGED <<ocr_vars, args, segments, existing_file, existing, new_profiles, ci, it,
                   segs, iter_logs, intra_clean_log, local_merge_history,
                   local_original_mapping, max_index, mapping, threshold, idx,
                   thr, existing_before_new, diag_sim_matrix, out, passes,
                   last_match, created>>

\* "while cur >= args.auto_lower_min and not any(...)": attempt_merge(cur).
\* With a negative step cur grows without bound and the passes are capped;
\* the history keeps the first MaxRetries + 1 passes and the last one.
LowerLoop ==
    /\ pc = "lower"
    /\ IF DGe(cur, DFromMilli(args.auto_lower_min)) /\ ~AnyMatched
       THEN /\ args.auto_lower_step < 0 => Len(passes) <= MaxRetries
            /\ thr' = cur
            /\ passes' = IF Len(passes) <= MaxRetries
                          THEN Append(passes, [thr |-> cur, merged_count |-> 0])
                          ELSE [passes EXCEPT
                                  ![Len(passes)] = [thr |-> cur, merged_count |-> 0]]
            /\ idx' = 1
            /\ pc' = "attempt"
       ELSE /\ pc' = "diag"
            /\ UNCHANGED <<thr, passes, idx>>
    /\ UNCHANGED <<ocr_vars, args, segments, existing_file, existing, new_profiles, ci, it,
                   segs, iter_logs, intra_clean_log, local_merge_history,
                   local_original_mapping, max_index, mapping, threshold, cur,
                   existing_before_new, diag_sim_matrix, out, last_match, created>>

\* attempt_merge(cur) has returned: "threshold = cur; break" or "cur -= step"
RetryEnd ==
    /\ pc = "attempt"
    /\ idx > Len(new_profiles)
    /\ Len(passes) > 1
    /\ threshold' = EffectiveThreshold(threshold, cur, AnyMatched)
    /\ IF AnyMatched
       THEN /\ pc' = "diag"
            /\ UNCHANGED cur
       ELSE /\ \E step \in {DFromMilli(args.auto_lower_step)} :
                  cur' = DSub(cur, step)
            /\ pc' = "lower"
    /\ UNCHANGED <<ocr_vars, args, segments, existing_file, existing, new_profiles, ci, it,
                   segs, iter_logs, intra_clean_log, local_merge_history,
                   local_original_mapping, max_index, mapping, idx, thr,
                   existing_before_new, diag_sim_matrix, out, passes, last_match,
                   created>>

\* existing_before_new and the diagnostic matrix, before labels are created
Diagnose ==
    /\ pc = "diag"
    /\ existing_before_new' = existing
    /\ diag_sim_matrix' = build_similarity_matrix(new_profiles, existing)
    /\ idx' = 1
    /\ pc' = "create"
    /\ UNCHANGED <<ocr_vars, args, segments, existing_file, existing, new_profiles, ci, it,
                   segs, iter_logs, intra_clean_log, local_merge_history,
                   local_original_mapping, max_index, mapping, threshold, cur,
                   thr, out, passes, last_match, created>>

\* "for file_spk, prof in new_profiles.items()": a label for an unmatched speaker
CreateStep ==
    /\ pc = "create"
    /\ idx <= Len(new_profiles)
    /\ LET prof == new_profiles[idx]
           new_label == NewLabel(max_index + 1)
       IN IF InMapping(prof.spk)
          THEN UNCHANGED <<existing, mapping, max_index, created>>
          ELSE /\ max_index' = max_index + 1
               /\ existing' = DictSet(existing, new_label,
                                 [label |-> new_label, embedding |-> prof.embedding,
                                  duration |-> prof.duration])
               /\ mapping' = Append(mapping, [spk |-> prof.spk, global |-> new_label])
               /\ created' = Append(created, new_label)
    /\ idx' = idx + 1
    /\ UNCHANGED <<ocr_vars, args, segments, existing_file, pc, new_profiles, ci, it, segs,
                   iter_logs, intra_clean_log, local_merge_history,
                   local_original_mapping, threshold, cur, thr,
                   existing_before_new, diag_sim_matrix, out, passes, last_match>>

\* the output is built and written
\* the matrix over the registry with the new labels in it
sim_matrix_full == build_similarity_matrix(new_profiles, existing)

\* "sim_matrix = diag_sim_matrix"
sim_matrix == diag_sim_matrix

\* "[spk for spk, prof in new_profiles.items() if prof["embedding"] is None or
\* not np.all(np.isfinite(prof["embedding"]))]"; every embedding of the model
\* that is not NoEmb is finite
InvalidFileSpeakers(profiles) ==
    LET Invalid(pr) == pr.embedding = NoEmb
        bad == SelectSeq(profiles, Invalid)
    IN [i \in 1..Len(bad) |-> bad[i].spk]

\* sims_for_stats: the best_sim of the entries of best_report that have one
SimsForStats(report) ==
    LET HasSim(r) == ~r.none
        with == SelectSeq(report, HasSim)
    IN [i \in 1..Len(with) |-> with[i].best_sim]

\* the sum of the squares of (10 * v[i] - mean10)
RECURSIVE SquareSum(_, _)
SquareSum(v, mean10) ==
    IF Len(v) = 0 THEN 0
    ELSE (10 * v[1] - mean10) * (10 * v[1] - mean10) + SquareSum(Tail(v), mean10)

\* sim_stats, every value in hundredths of a grid step; <<>> is the empty dict
SimStats(v) ==
    IF Len(v) = 0 THEN <<>>
    ELSE LET mean10 == RoundDiv(10 * SeqSum(v), Len(v))
         IN << [count |-> Len(v),
                mean  |-> RoundDiv(100 * SeqSum(v), Len(v)),
                std   |-> 10 * ISqrt(SquareSum(v, mean10) \div Len(v)),
                p25   |-> Percentile100(v, 25),
                p75   |-> Percentile100(v, 75)] >>

\* "candidate = max(p25, mean - 0.5 * std); candidate = min(candidate, p75)"
Candidate(st) ==
    LET lower == st.mean - RoundDiv(st.std, 2)
        c     == IF st.p25 >= lower THEN st.p25 ELSE lower
    IN IF c <= st.p75 THEN c ELSE st.p75

\* round(candidate, 3) as grid steps; a candidate half way between two steps
\* goes to the one its binary value is nearer to, which the grid does not tell
Round3(c) ==
    LET q == c \div 100
        r == c % 100
    IN IF r < 50 THEN {q} ELSE IF r > 50 THEN {q + 1} ELSE {q, q + 1}

\* suggested_threshold: <<>> is None
SuggestedThresholds(stats) ==
    IF stats = <<>> THEN {<<>>}
    ELSE {<<t>> : t \in Round3(Candidate(stats[1]))}

WriteOutput ==
    /\ pc = "create"
    /\ idx > Len(new_profiles)
    /\ \E suggested \in
          SuggestedThresholds(SimStats(SimsForStats(BestReport(diag_sim_matrix)))) :
       out' = [kind |-> "result",
               similarity_stats |->
                   SimStats(SimsForStats(BestReport(diag_sim_matrix))),
               suggested_threshold |-> suggested,
               speakers |-> SortedByLabel(existing),
               mapping |-> mapping,
               threshold |-> threshold,
               similarity_matrix |-> sim_matrix,
               invalid_file_speakers |-> InvalidFileSpeakers(new_profiles),
               file_speaker_best |-> BestReport(diag_sim_matrix),
               local_merge_history |-> local_merge_history,
               local_original_mapping |-> local_original_mapping,
               target_local_speakers |-> args.target_local_speakers,
               intra_clean_log |-> intra_clean_log]
    /\ pc' = "done"
    /\ UNCHANGED <<ocr_vars, args, segments, existing_file, existing, new_profiles, ci, it,
                   segs, iter_logs, intra_clean_log, local_merge_history,
                   local_original_mapping, max_index, mapping, threshold, cur,
                   idx, thr, existing_before_new, diag_sim_matrix, passes,
                   last_match, created>>

Next ==
    \/ EmptySegments
    \/ BuildProfiles
    \/ CleanSpeaker
    \/ CleanIter
    \/ CleanDone
    \/ MergeInit
    \/ MergeStep
    \/ NoProfiles
    \/ BeginMatching
    \/ AttemptStep
    \/ FirstPassEnd
    \/ LowerLoop
    \/ RetryEnd
    \/ Diagnose
    \/ CreateStep
    \/ WriteOutput

Spec == Init /\ [][Next]_vars

\* the script is one sequential process: inside the retry loop a step that
\* can be taken is taken
LiveSpec ==
    /\ RunFrom(LiveInputs)
    /\ [][Next]_vars
    /\ WF_vars(LowerLoop) /\ WF_vars(AttemptStep) /\ WF_vars(RetryEnd)

----------------------------------------------------------------------------
(* The OCR language download endpoint of the file converter *)

\* the number of POST requests of a behaviour
MaxPosts == 3

\* is_installed always answers no
is_installed_never(lang) == FALSE

\* LanguagePackManager.is_installed: the .traineddata file exists
is_installed(lang) == lang \in installed

StatusRecord(st, progress, error) ==
    [status |-> st, progress |-> progress, error |-> error]

\* the diarization script is not running
DiarizationIdle ==
    /\ args = Args(750, FALSE, 600, 50, 0, FALSE)
    /\ segments = <<>>
    /\ existing_file = <<>>
    /\ pc = "start"
    /\ existing = <<>>
    /\ new_profiles = <<>>
    /\ ci = 0 /\ it = 0 /\ segs = <<>> /\ iter_logs = <<>>
    /\ intra_clean_log = <<>>
    /\ local_merge_history = <<>>
    /\ local_original_mapping = <<>>
    /\ max_index = -1
    /\ mapping = <<>>
    /\ threshold = DFromMilli(0)
    /\ cur = DFromMilli(0)
    /\ idx = 0
    /\ thr = DFromMilli(0)
    /\ existing_before_new = <<>>
    /\ diag_sim_matrix = <<>>
    /\ out = NoOutput
    /\ passes = <<>>
    /\ last_match = NoMatch
    /\ created = <<>>

\* the service starts with any of the available languages installed
OcrInit ==
    /\ DiarizationIdle
    /\ download_status = [l \in RequestLangs |-> NoStatus]
    /\ installed \in SUBSET AVAILABLE_LANGS
    /\ tasks = <<>>
    /\ responses = <<>>

\* POST /ocr/languages/{lang}/download
download_ocr_language ==
    /\ Len(responses) < MaxPosts
    /\ \E lang \in RequestLangs :
          IF lang \notin AVAILABLE_LANGS
          THEN /\ responses' = Append(responses,
                      [lang |-> lang, code |-> 400, status |-> "none"])
               /\ UNCHANGED tasks
          ELSE IF is_installed(lang)
          THEN /\ responses' = Append(responses,
                      [lang |-> lang, code |-> 200, status |-> "completed"])
               /\ UNCHANGED tasks
          ELSE IF download_status[lang] # NoStatus
                  /\ download_status[lang].status = "downloading"
          THEN /\ responses' = Append(responses,
                      [lang |-> lang, code |-> 200, status |-> "downloading"])
               /\ UNCHANGED tasks
          ELSE /\ tasks' = Append(tasks, [lang |-> lang, pc |-> "added"])
               /\ responses' = Append(responses,
                      [lang |-> lang, code |-> 200, status |-> "downloading"])
    /\ UNCHANGED <<diarization_vars, download_status, installed>>

\* _download_language_pack begins: the status record is set to "downloading"
TaskStart ==
    /\ \E i \in 1..Len(tasks) :
          /\ tasks[i].pc = "added"
          /\ download_status' = [download_status EXCEPT
                 ![tasks[i].lang] = StatusRecord("downloading", 0, "None")]
          /\ tasks' = [tasks EXCEPT ![i].pc = "called"]
    /\ UNCHANGED <<diarization_vars, installed, responses>>

\* manager.download(lang) is entered: an installed language needs no fetch
TaskEnter ==
    /\ \E i \in 1..Len(tasks) :
          /\ tasks[i].pc = "called"
          /\ tasks' = [tasks EXCEPT
                 ![i].pc = IF is_installed(tasks[i].lang) THEN "success"
                           ELSE "fetching"]
    /\ UNCHANGED <<diarization_vars, download_status, installed, responses>>

\* progress_callback: a chunk has arrived (progress in two steps of 50)
TaskProgress ==
    /\ \E i \in 1..Len(tasks) :
          /\ tasks[i].pc = "fetching"
          /\ download_status[tasks[i].lang].progress < 100
          /\ download_status' = [download_status EXCEPT
                 ![tasks[i].lang].progress = @ + 50]
    /\ UNCHANGED <<diarization_vars, installed, tasks, responses>>

\* the fetch ends: the file is renamed into place, or an exception is caught
TaskFetched ==
    /\ \E i \in 1..Len(tasks) :
          /\ tasks[i].pc = "fetching"
          /\ \/ /\ installed' = installed \cup {tasks[i].lang}
                /\ tasks' = [tasks EXCEPT ![i].pc = "success"]
             \/ /\ tasks' = [tasks EXCEPT ![i].pc = "failure"]
                /\ UNCHANGED installed
    /\ UNCHANGED <<diarization_vars, download_status, responses>>

\* the final status record is written and the task ends
TaskFinish ==
    /\ \E i \in 1..Len(tasks) :
          /\ tasks[i].pc \in {"success", "failure"}
          /\ download_status' = [download_status EXCEPT
                 ![tasks[i].lang] =
                     IF tasks[i].pc = "success"
                     THEN StatusRecord("completed", 100, "None")
                     ELSE StatusRecord("failed", 0, "download failed")]
          /\ tasks' = SubSeq(tasks, 1, i - 1) \o SubSeq(tasks, i + 1, Len(tasks))
    /\ UNCHANGED <<diarization_vars, installed, responses>>

\* GET /ocr/languages/{lang}/download-status: the record the handler returns
get_download_status(lang) ==
    IF is_installed(lang) THEN StatusRecord("completed", 100, "None")
    ELSE IF download_status[lang] # NoStatus THEN download_status[lang]
    ELSE StatusRecord("not_started", 0, "None")

OcrNext ==
    \/ download_ocr_language
    \/ TaskStart
    \/ TaskEnter
    \/ TaskProgress
    \/ TaskFetched
    \/ TaskFinish

OcrSpec == OcrInit /\ [][OcrNext]_vars

----------------------------------------------------------------------------
(* Properties *)

\* the file speakers of the input and those with at least one embedded segment
InputLabels == {segments[i].speaker : i \in {j \in 1..Len(segments) : segments[j].dur > 0}}

HasCentroid(l) ==
    \E i \in 1..Len(segments) :
        segments[i].speaker = l /\ segments[i].dur > 0 /\ segments[i].emb # NoEmb

MappedCount(m, l) == Cardinality({i \in 1..Len(m) : m[i].spk = l})

TraceOf(l) == {local_original_mapping[i].cur :
                  i \in {j \in 1..Len(local_original_mapping) :
                            local_original_mapping[j].orig = l}}

GlobalOf(m, l) == {m[i].global : i \in {j \in 1..Len(m) : m[j].spk = l}}

Finished == pc = "done" /\ out.kind = "result"

\* C1 as stated: at the end of a run every local label of the input has exactly
\* one entry in the output mapping when it has a centroid, and none otherwise.
C1_EveryLabelInMapping ==
    Finished =>
        \A l \in InputLabels :
            MappedCount(out.mapping, l) = (IF HasCentroid(l) THEN 1 ELSE 0)

\* C1 amended: at the end of a run every local label with a centroid resolves to
\* exactly one global label through local_original_mapping: its trace names one
\* surviving label, which has exactly one entry in the output mapping; a label
\* removed by a local merge has no entry of its own, and a label without a
\* centroid has neither a trace nor an entry.
C1_EveryLabelResolved ==
    pc = "done" =>
        \A l \in InputLabels :
            IF HasCentroid(l)
            THEN /\ out.kind = "result"
                 /\ Cardinality(TraceOf(l)) = 1
                 /\ \A k \in TraceOf(l) :
                       /\ MappedCount(out.mapping, k) = 1
                       /\ k # l => MappedCount(out.mapping, l) = 0
                       /\ GlobalOf(out.mapping, k) \subseteq
                             {out.speakers[i].label : i \in 1..Len(out.speakers)}
            ELSE /\ TraceOf(l) = {}
                 /\ out.kind = "result" => MappedCount(out.mapping, l) = 0

\* a run with cleaning, local merge and auto-lowering all in effect ended with a
\* merged-away label, a matched label and a label without centroid
C1_Witness ==
    /\ Finished
    /\ args.intra_clean /\ args.auto_lower_threshold
    /\ out.intra_clean_log # <<>>
    /\ out.local_merge_history # <<>>
    /\ Len(passes) > 1
    /\ \E l \in InputLabels : HasCentroid(l) /\ TraceOf(l) # {l}

C3_WeightedMerge ==
    last_match.kind = "match" =>
        LET g   == existing[LabelIndex(existing, last_match.label)]
            old == last_match.old
            c   == last_match.centroid
            d   == last_match.duration
            sum == <<old.embedding[1] * old.duration + c[1] * d,
                     old.embedding[2] * old.duration + c[2] * d>>
        IN /\ d > 0
           /\ g.duration = old.duration + d
           /\ g.embedding = Normalize(<<RoundDiv(sum[1], old.duration + d),
                                        RoundDiv(sum[2], old.duration + d)>>)
           /\ MappedCount(mapping, last_match.spk) = 1
           /\ GlobalOf(mapping, last_match.spk) = {last_match.label}
           /\ (old.embedding = <<Scale, 0>> /\ old.duration = 10 /\ d = 10
                 /\ c = <<(8 * Scale) \div 10, (6 * Scale) \div 10>>)
              => /\ g.duration = 20
                 /\ g.embedding = Normalize(<<(9 * Scale) \div 10, (3 * Scale) \div 10>>)
                 /\ 1000 * g.embedding[1] \in (948 * Scale)..(950 * Scale)
                 /\ 1000 * g.embedding[2] \in (315 * Scale)..(317 * Scale)

\* scenario B: SPK00 = ([1,0], 10) matched by ([0.8,0.6], 10) at threshold 0.75
C3_Witness ==
    /\ pc = "attempt"
    /\ last_match.kind = "match"
    /\ last_match.thr = DFromMilli(750)
    /\ last_match.old = [label |-> SPK00, embedding |-> E1, duration |-> 10]
    /\ last_match.centroid = E2 /\ last_match.duration = 10

PriorCovered(d) ==
    \A i \in 1..Len(existing_file) :
        \E j \in 1..Len(d) :
            /\ d[j].label = existing_file[i].speaker
            /\ d[j].duration >= existing_file[i].duration

PriorLabels == {existing_file[i].speaker : i \in 1..Len(existing_file)}

Unmapped(k) == ~(\E i \in 1..Len(mapping) : mapping[i].spk = k)

\* C4: with auto-lowering disabled, a profile whose best similarity is below the
\* threshold (or that finds no registry entry) changes nothing in its matching
\* step, and its creation step appends one entry under a label not in the
\* registry, carrying the profile's centroid and duration, leaving every entry
\* that was there unchanged; when no profile matched, the prior registry is
\* found unchanged at the end.
C4_NewLabelFrame ==
    [][~args.auto_lower_threshold =>
        /\ (pc = "attempt" /\ idx <= Len(new_profiles)
              /\ Unmapped(new_profiles[idx].spk)
              /\ (existing = <<>> \/
                  DLess(SimValue(match_existing(new_profiles[idx].embedding,
                                                existing).best_sim), thr)))
           => (existing' = existing /\ mapping' = mapping)
        /\ (pc = "create" /\ idx <= Len(new_profiles)
              /\ Unmapped(new_profiles[idx].spk))
           => /\ Len(passes) = 1
              /\ Len(existing') = Len(existing) + 1
              /\ SubSeq(existing', 1, Len(existing)) = existing
              /\ existing'[Len(existing')].label \notin Labels(existing)
              /\ existing'[Len(existing')].embedding = new_profiles[idx].embedding
              /\ existing'[Len(existing')].duration = new_profiles[idx].duration
              /\ mapping' = Append(mapping,
                                   [spk |-> new_profiles[idx].spk,
                                    global |-> existing'[Len(existing')].label])
        /\ (pc' = "done" /\ out'.kind = "result" /\ passes[1].merged_count = 0)
           => \A i \in 1..Len(existing_file) :
                 /\ existing[i].label = existing_file[i].speaker
                 /\ existing[i].embedding = existing_file[i].embedding
                 /\ existing[i].duration = existing_file[i].duration]_vars

\* scenario C: SPK00 = ([1,0], 10), profile ([0.8,0.6], 10), threshold 0.85
C4_Witness ==
    /\ Finished
    /\ ~args.auto_lower_threshold /\ args.threshold = 850
    /\ out.speakers = <<[label |-> SPK00, embedding |-> E1, duration |-> 10],
                        [label |-> SPK01, embedding |-> E2, duration |-> 10]>>
    /\ created = <<SPK01>>

\* the largest number among the prior labels SPK<digits>, -1 when there is none
PriorMax ==
    LET nums == {n \in 0..99 : \E l \in PriorLabels :
                    /\ Len(l) > 3 /\ SubSeq(l, 1, 3) = StrSPK
                    /\ \A i \in 4..Len(l) : l[i] \in 48..57
                    /\ ParseInt(SubSeq(l, 4, Len(l))) = n}
    IN IF nums = {} THEN -1 ELSE CHOOSE n \in nums : \A k \in nums : k <= n

\* C5: the k-th label created is "SPK" followed by the number PriorMax + k in at
\* least two digits; no created label is a prior label or an earlier created
\* label; an empty prior registry and two valid profiles give SPK00 and SPK01.
C5_SequentialLabels ==
    /\ \A k \in 1..Len(created) :
          LET c == created[k]
              digits == SubSeq(c, 4, Len(c))
              n == PriorMax + k
          IN /\ SubSeq(c, 1, 3) = StrSPK
             /\ Len(digits) = (IF n < 100 THEN 2 ELSE 3)
             /\ \A i \in 1..Len(digits) : digits[i] \in 48..57
             /\ ParseInt(digits) = n
             /\ c \notin PriorLabels
             /\ \A j \in 1..(k - 1) : created[j] # c
    /\ (Finished /\ existing_file = <<>> /\ Len(new_profiles) = 2)
       => /\ created = <<SPK00, SPK01>>
          /\ {out.speakers[i].label : i \in 1..Len(out.speakers)} = {SPK00, SPK01}

\* scenario A, and a run that continues the numbering after SPK09
C5_Witness ==
    /\ Finished
    /\ \/ existing_file = <<>> /\ created = <<SPK00, SPK01>>
       \/ PriorMax = 9 /\ Len(created) = 2

\* C6 as stated: with auto-lowering in effect and no match in the first pass the
\* retries are at threshold - k*step for k = 1, 2, ..., none below the floor, no
\* retry after a pass that matched, and when no pass matched every value
\* >= floor was tried, the floor included when threshold - k*step hits it.
C6_EveryValueDownToFloor ==
    (pc = "diag" /\ args.auto_lower_threshold /\ existing_file # <<>>
       /\ args.auto_lower_step > 0 /\ passes[1].merged_count = 0)
    => LET n == Len(passes) - 1
           K == IF args.threshold >= args.auto_lower_min
                THEN (args.threshold - args.auto_lower_min) \div args.auto_lower_step
                ELSE 0
       IN /\ \A k \in 1..n :
                /\ DLess(DFromMilli(args.threshold - k * args.auto_lower_step - 1),
                         passes[k + 1].thr)
                /\ DLess(passes[k + 1].thr,
                         DFromMilli(args.threshold - k * args.auto_lower_step + 1))
          /\ n <= K
          /\ \A k \in 1..(n - 1) : passes[k + 1].merged_count = 0
          /\ passes[n + 1].merged_count = 0 => n = K

\* C7: the threshold the run reports is the thr of the first call of
\* attempt_merge that matched a profile, and the configured threshold when no
\* call matched.
C7_EffectiveThreshold ==
    Finished =>
        LET hits == {i \in 1..Len(passes) : passes[i].merged_count > 0}
        IN IF hits = {} THEN out.threshold = DFromMilli(args.threshold)
           ELSE out.threshold = passes[CHOOSE i \in hits : \A j \in hits : i <= j].thr

\* scenario D: the retry after 0.85 matched; its threshold is reported
C7_Witness ==
    /\ Finished
    /\ Len(passes) = 2 /\ passes[2].merged_count > 0
    /\ out.threshold = DSub(DFromMilli(850), DFromMilli(50))
    /\ out.threshold # DFromMilli(args.threshold)

\* C8: attempt_merge is called a second time only when auto-lowering is enabled
\* and the first call matched nothing; when the first call matched a profile,
\* no lower threshold is tried, the configured threshold is reported, and every
\* profile the first call left unmatched is given a created label.
C8_LoweringOnlyWithoutMatch ==
    /\ Len(passes) > 1 => (args.auto_lower_threshold /\ passes[1].merged_count = 0)
    /\ (Finished /\ passes[1].merged_count > 0)
       => /\ Len(passes) = 1
          /\ out.threshold = DFromMilli(args.threshold)
          /\ Len(created) = Len(new_profiles) - passes[1].merged_count
          /\ \A i \in 1..Len(out.mapping) :
                \/ out.mapping[i].global \in PriorLabels
                \/ out.mapping[i].global \in Range(created)

\* auto-lowering enabled, one profile matched in the first pass, and another,
\* whose best similarity is at least the floor, got a created label
C8_Witness ==
    /\ Finished
    /\ args.auto_lower_threshold
    /\ passes[1].merged_count > 0
    /\ \E i \in 1..Len(out.file_speaker_best) :
          /\ out.file_speaker_best[i].best_sim * 1000 >= args.auto_lower_min * Scale
          /\ GlobalOf(out.mapping, out.file_speaker_best[i].file_speaker)
                \subseteq Range(created)

\* C9 as stated: in every state of a run, and in the registry the run writes,
\* every prior label is present with at least its prior duration, also on the
\* runs that end early.
C9_RegistryNeverShrinks ==
    /\ (pc # "start" /\ out.kind # "empty") => PriorCovered(existing)
    /\ out.kind \in {"result", "empty"} => PriorCovered(out.speakers)

AfterLocalMerge == pc \in {"attempt", "lower", "diag", "create", "done"}

\* C10: once the local merge has run with a target > 0, at most max(target, 1)
\* profiles are left, and every pass of its loop removes exactly one profile.
C10_MergeReducesByOne ==
    /\ [](AfterLocalMerge /\ args.target_local_speakers > 0
            => Len(new_profiles) <= (IF args.target_local_speakers > 1
                                     THEN args.target_local_speakers ELSE 1))
    /\ [][(pc = "merge_loop" /\ pc' = "merge_loop")
            => /\ Len(new_profiles') = Len(new_profiles) - 1
               /\ Len(local_merge_history') = Len(local_merge_history) + 1]_vars

\* three profiles were merged down to one in two passes
C10_Witness ==
    /\ pc = "attempt"
    /\ args.target_local_speakers = 1
    /\ Len(local_merge_history) = 2
    /\ local_merge_history[1].remaining_after = 2
    /\ Len(new_profiles) = 1

\* the profiles as they were built, before cleaning and local merge
BuiltProfiles == BuildLoop(group_segments_by_speaker(segments))

\* the least number of segments cleaning may leave a speaker that had n
CleanFloor(n) ==
    IF n < args.intra_clean_min_segments THEN n ELSE args.intra_clean_min_segments

\* the segments of a pool that lie below the percentile cutoff
BelowCutoff(pool) ==
    LET c == PoolCentroid(pool).centroid
        sims == [i \in 1..Len(pool) |-> cosine(pool[i].embedding, c)]
    IN {i \in 1..Len(pool) :
           100 * sims[i] < Percentile100(sims, args.intra_clean_percentile)}

\* C11: during and after cleaning every speaker that was built with n segments
\* is still a profile and holds at least min(n, intra_clean_min_segments)
\* segments, and a cleaning round either leaves at least
\* intra_clean_min_segments segments or removes nothing.
C11_CleanKeepsMinimum ==
    /\ [](pc \in {"clean", "clean_iter", "merge"} =>
            /\ \A b \in Range(BuiltProfiles) :
                  \E i \in 1..Len(new_profiles) :
                     /\ new_profiles[i].spk = b.spk
                     /\ Len(new_profiles[i].segments) >= CleanFloor(Len(b.segments))
            /\ pc = "clean_iter" =>
                  Len(segs) >= CleanFloor(Len(BuiltProfiles[ci].segments)))
    /\ [][pc = "clean_iter" =>
            /\ Len(segs') <= Len(segs)
            /\ (Len(segs') >= args.intra_clean_min_segments \/ segs' = segs)
            /\ (Len(segs) - Cardinality(BelowCutoff(segs))
                  < args.intra_clean_min_segments) => segs' = segs]_vars

\* a round found two of three segments below the cutoff, which would have left
\* one segment where two are required, and removed nothing
C11_Witness ==
    /\ pc = "clean" /\ ci = 2
    /\ args.intra_clean_min_segments = 2
    /\ Len(segs) = 3
    /\ Cardinality(BelowCutoff(segs)) = 2
    /\ new_profiles[1].segments = segs
    /\ intra_clean_log = <<>>

\* the speakers of the input that have a segment with an embedding and a
\* positive total duration
ValidSpeakers ==
    {segments[i].speaker : i \in {j \in 1..Len(segments) :
        segments[j].emb # NoEmb /\ segments[j].dur > 0}}

\* norm 1 up to the rounding of the grid
UnitNorm(v) ==
    /\ Dot(v, v) >= Scale * Scale - 2 * Scale
    /\ Dot(v, v) <= Scale * Scale + 2 * Scale

\* C12 as stated: from building on, every profile has a centroid of norm 1,
\* never the zero vector, after building, cleaning and each local merge, and a
\* speaker is without profile exactly when it has no valid segment or zero
\* total duration.
C12_UnitCentroids ==
    pc # "start" =>
        /\ \A i \in 1..Len(new_profiles) :
              /\ new_profiles[i].embedding # <<0, 0>>
              /\ UnitNorm(new_profiles[i].embedding)
        /\ pc \in {"clean", "clean_iter", "merge"} =>
              Spks(new_profiles) = ValidSpeakers

\* C13 as stated: at the end of a run with segments, every local label that got
\* no profile because its centroid is absent is in the invalid_file_speakers
\* list of the output.
C13_DroppedLabelsRecorded ==
    (pc = "done" /\ out.kind # "empty") =>
        \A l \in InputLabels :
            ~HasCentroid(l) =>
                /\ out.kind = "result"
                /\ l \in Range(out.invalid_file_speakers)

\* C14 as stated: a run that ends with no local profile has written its output,
\* the output carries no error and its mapping is empty.
C14_EmptyInputSucceeds ==
    (pc = "done" /\ new_profiles = <<>>) =>
        /\ out.kind # "none"
        /\ "error" \notin DOMAIN out
        /\ "mapping" \in DOMAIN out
        /\ out.mapping = <<>>

\* the position in "created" of the label a file speaker was given, 0 if none
CreatedRank(m, l) ==
    IF \E k \in 1..Len(created) : created[k] \in GlobalOf(m, l)
    THEN CHOOSE k \in 1..Len(created) : created[k] \in GlobalOf(m, l)
    ELSE 0

\* C15 as stated: the passes of attempt_merge and the new-label loop go through
\* the profiles in ascending order of their local label, whatever the order of
\* first appearance in the segments, so that of two speakers given created
\* labels the one with the smaller local label has the smaller number.
C15_AscendingLabelOrder ==
    /\ pc \in {"attempt", "lower", "diag", "create"} =>
          \A i, j \in 1..Len(new_profiles) :
              i < j => StrLess(new_profiles[i].spk, new_profiles[j].spk)
    /\ Finished =>
          \A a, b \in Spks(new_profiles) :
              (StrLess(a, b) /\ CreatedRank(out.mapping, a) > 0
                 /\ CreatedRank(out.mapping, b) > 0)
              => CreatedRank(out.mapping, a) < CreatedRank(out.mapping, b)

\* the registry labels a similarity matrix has columns for
MatrixLabels(matrix) ==
    UNION {{matrix[i].row[j].label : j \in 1..Len(matrix[i].row)} :
              i \in 1..Len(matrix)}

\* C16: the diagnostic matrix, the matrix written and the best-match report
\* name only labels of the prior registry and no label created by the run,
\* while the labels are created and after (an entry of the report without a
\* best match names none).
C16_DiagnosticsBeforeNewLabels ==
    /\ pc \in {"create", "done"} =>
          /\ MatrixLabels(diag_sim_matrix) \subseteq PriorLabels
          /\ MatrixLabels(diag_sim_matrix) \cap Range(created) = {}
          /\ Labels(existing_before_new) \cap Range(created) = {}
    /\ Finished =>
          /\ MatrixLabels(out.similarity_matrix) \subseteq PriorLabels
          /\ MatrixLabels(out.similarity_matrix) \cap Range(created) = {}
          /\ \A i \in 1..Len(out.file_speaker_best) :
                ~out.file_speaker_best[i].none =>
                   /\ out.file_speaker_best[i].best_global \in PriorLabels
                   /\ out.file_speaker_best[i].best_global \notin Range(created)

\* a finished run that created a label and reports a matrix over a non-empty
\* prior registry, with a row for the speaker the label was created from
C16_Witness ==
    /\ Finished
    /\ created # <<>>
    /\ \E i \in 1..Len(out.similarity_matrix) :
          /\ out.similarity_matrix[i].row # <<>>
          /\ GlobalOf(out.mapping, out.similarity_matrix[i].spk) \subseteq Range(created)
          /\ GlobalOf(out.mapping, out.similarity_matrix[i].spk) # {}

\* C17 as stated: every entry of the similarity matrix written is the cosine of
\* the profile's centroid and the centroid the label had in the registry as it
\* was loaded, before the matches of the run updated it.
C17_MatrixAgainstPriorCentroids ==
    Finished =>
        LET prior == load_existing_embeddings(existing_file)
        IN \A i \in 1..Len(out.similarity_matrix) :
              \A j \in 1..Len(out.similarity_matrix[i].row) :
                 LET e == out.similarity_matrix[i].row[j]
                     p == new_profiles[SpkIndex(new_profiles,
                                                out.similarity_matrix[i].spk)]
                     g == prior[LabelIndex(prior, e.label)]
                 IN e.sim = cosine(p.embedding, g.embedding)

\* C18: the POST handler never changes download_status; for a language that is
\* not available it answers 400, for an installed one status "completed", both
\* without adding a task; for an available language that is not installed it
\* answers status "downloading"; and a task is added only for an available
\* language that is not installed, one task for the language requested.
C18_DownloadOnlyWhenMissing ==
    [][Len(responses') = Len(responses) + 1 =>
         LET r == responses'[Len(responses')]
         IN /\ download_status' = download_status
            /\ r.lang \notin AVAILABLE_LANGS =>
                  (r.code = 400 /\ tasks' = tasks)
            /\ (r.lang \in AVAILABLE_LANGS /\ r.lang \in installed) =>
                  (r.code = 200 /\ r.status = "completed" /\ tasks' = tasks)
            /\ (r.lang \in AVAILABLE_LANGS /\ r.lang \notin installed) =>
                  (r.code = 200 /\ r.status = "downloading")
            /\ tasks' # tasks =>
                  /\ r.lang \in AVAILABLE_LANGS /\ r.lang \notin installed
                  /\ tasks' = Append(tasks, [lang |-> r.lang, pc |-> "added"])]_vars

\* the three answers were given in one behaviour, the 400 and the "completed"
\* while the download_status of the language was already written
C18_Witness ==
    /\ Len(responses) = 3
    /\ responses[1].code = 200 /\ responses[1].status = "downloading"
    /\ responses[2].code = 200 /\ responses[2].status = "completed"
    /\ responses[2].lang = responses[1].lang
    /\ responses[3].code = 400
    /\ download_status[responses[1].lang].status = "completed"

\* the similarity of the centroids of two current profiles
PairSim(x, y) ==
    cosine(new_profiles[SpkIndex(new_profiles, x)].embedding,
           new_profiles[SpkIndex(new_profiles, y)].embedding)

\* the label pair <<a, b>>, smaller label first, is not after <<x, y>>, x < y
LabelPairLeq(a, b, x, y) ==
    LET lo == IF StrLeq(a, b) THEN a ELSE b
        hi == IF StrLeq(a, b) THEN b ELSE a
    IN StrLess(lo, x) \/ (lo = x /\ StrLeq(hi, y))

\* C19 as stated: the pair a local merge merges has the largest centroid
\* similarity of all pairs of current profiles, and among the pairs with that
\* similarity it is the first in the order of the label pairs.
C19_BestPairLexicographicTie ==
    [][Len(local_merge_history') = Len(local_merge_history) + 1 =>
         LET h == local_merge_history'[Len(local_merge_history')]
             a == h.merge_pair[1]
             b == h.merge_pair[2]
         IN \A x, y \in Spks(new_profiles) :
               StrLess(x, y) =>
                  /\ PairSim(x, y) <= PairSim(a, b)
                  /\ PairSim(x, y) = PairSim(a, b) => LabelPairLeq(a, b, x, y)]_vars

\* C20: a local merge keeps the smaller of the two labels in string order and
\* removes the other: after it the kept label is a profile, the removed one is
\* not, no other profile came or went, and the history entry names that kept
\* and that removed label.
C20_KeepSmallerLabel ==
    [][Len(local_merge_history') = Len(local_merge_history) + 1 =>
         LET h == local_merge_history'[Len(local_merge_history')]
             a == h.merge_pair[1]
             b == h.merge_pair[2]
         IN /\ a # b /\ {a, b} \subseteq Spks(new_profiles)
            /\ h.kept \in {a, b} /\ h.removed \in {a, b} /\ h.kept # h.removed
            /\ StrLess(h.kept, h.removed)
            /\ Spks(new_profiles') = Spks(new_profiles) \ {h.removed}
            /\ h.kept \in Spks(new_profiles')]_vars

\* a merge whose pair was visited with the larger label first kept the second
C20_Witness ==
    /\ local_merge_history # <<>>
    /\ LET h == local_merge_history[Len(local_merge_history)]
       IN /\ h.kept = h.merge_pair[2]
          /\ h.removed = h.merge_pair[1]
          /\ h.kept \in Spks(new_profiles)
          /\ h.removed \notin Spks(new_profiles)

\* the labels removed by the local merges so far
RemovedLabels == {local_merge_history[i].removed : i \in 1..Len(local_merge_history)}

\* C21: from the start of the local merge on, local_original_mapping has exactly
\* one entry for every label that entered the merge (the surviving profiles and
\* the removed labels), every entry names a label that is a profile now, and a
\* surviving label is mapped to itself, also after merges in a chain.
C21_TraceMapping ==
    pc \in {"merge_loop", "attempt", "lower", "diag", "create"} =>
        /\ {local_original_mapping[i].orig : i \in 1..Len(local_original_mapping)}
              = Spks(new_profiles) \cup RemovedLabels
        /\ \A i, j \in 1..Len(local_original_mapping) :
              local_original_mapping[i].orig = local_original_mapping[j].orig => i = j
        /\ \A i \in 1..Len(local_original_mapping) :
              /\ local_original_mapping[i].cur \in Spks(new_profiles)
              /\ local_original_mapping[i].orig \in Spks(new_profiles) =>
                    local_original_mapping[i].cur = local_original_mapping[i].orig

\* two merges in a chain: the label kept by the first was removed by the second,
\* and all three labels are traced to the one survivor
C21_Witness ==
    /\ pc = "merge_loop"
    /\ Len(local_merge_history) = 2
    /\ local_merge_history[2].removed = local_merge_history[1].kept
    /\ Len(local_original_mapping) = 3
    /\ \A i \in 1..3 : local_original_mapping[i].cur = local_merge_history[2].kept

RECURSIVE SumDurations(_)
SumDurations(profiles) ==
    IF Len(profiles) = 0 THEN 0
    ELSE profiles[1].duration + SumDurations(Tail(profiles))

RECURSIVE CountSegments(_)
CountSegments(profiles) ==
    IF Len(profiles) = 0 THEN 0
    ELSE Len(profiles[1].segments) + CountSegments(Tail(profiles))

\* C22: a local merge gives the kept profile the sum of the two durations and
\* the segments of the first profile of the pair followed by those of the
\* second, and leaves the sum of the durations and the number of segments over
\* all profiles as they were.
C22_MergeConserves ==
    [][Len(local_merge_history') = Len(local_merge_history) + 1 =>
         LET h == local_merge_history'[Len(local_merge_history')]
             a == new_profiles[SpkIndex(new_profiles, h.merge_pair[1])]
             b == new_profiles[SpkIndex(new_profiles, h.merge_pair[2])]
             k == new_profiles'[SpkIndex(new_profiles', h.kept)]
         IN /\ k.duration = a.duration + b.duration
            /\ h.new_duration = a.duration + b.duration
            /\ k.segments = a.segments \o b.segments
            /\ SumDurations(new_profiles') = SumDurations(new_profiles)
            /\ CountSegments(new_profiles') = CountSegments(new_profiles)]_vars

\* three profiles of 10, 10 and 20 seconds were merged into one of 40 seconds
\* that holds the three segments
C22_Witness ==
    /\ pc = "merge_loop"
    /\ Len(local_merge_history) = 2
    /\ Len(new_profiles) = 1
    /\ new_profiles[1].duration = 40
    /\ Len(new_profiles[1].segments) = 3

\* the elements of a sequence whose positions are not in a set, in their order
RECURSIVE Without(_, _)
Without(pool, remove) ==
    IF Len(pool) = 0 THEN <<>>
    ELSE Without(SubSeq(pool, 1, Len(pool) - 1), remove)
            \o (IF Len(pool) \in remove THEN <<>> ELSE <<pool[Len(pool)]>>)

\* C23: a cleaning round that records an entry removes exactly the segments
\* whose similarity to the centroid is strictly below the percentile cutoff
\* and keeps the others in their order; a round that changes the pool records
\* an entry, and so does every round that finds segments below the cutoff and
\* would leave the minimum; a round in which no segment is below the cutoff ends the cleaning
\* of the speaker and changes nothing.
C23_RemovedAreBelowCutoff ==
    [][pc = "clean_iter" =>
         LET below == BelowCutoff(segs)
         IN /\ (segs' # segs => Len(iter_logs') = Len(iter_logs) + 1)
            /\ (Len(iter_logs') = Len(iter_logs) + 1 =>
                   /\ segs' = Without(segs, below)
                   /\ iter_logs'[Len(iter_logs')].removed = Cardinality(below)
                   /\ below # {})
            /\ (below # {} /\ Len(segs) - Cardinality(below)
                                  >= args.intra_clean_min_segments =>
                   Len(iter_logs') = Len(iter_logs) + 1)
            /\ (below = {} =>
                   /\ pc' = "clean"
                   /\ segs' = segs
                   /\ iter_logs' = iter_logs)]_vars

\* the first round removed one of three segments, the second found the two
\* that were left equal to the cutoff and ended the cleaning
C23_Witness ==
    /\ pc = "clean" /\ ci = 2 /\ it = 2
    /\ Len(iter_logs) = 1
    /\ iter_logs[1].n_before = 3 /\ iter_logs[1].removed = 1
    /\ Len(segs) = 2
    /\ BelowCutoff(segs) = {}
    /\ new_profiles[1].segments = segs

\* the entries of one speaker follow the rules of the log
WellFormedLog(logs) ==
    /\ Len(logs) <= args.intra_clean_max_iter
    /\ \A k \in 1..Len(logs) :
          /\ logs[k].iter = k
          /\ logs[k].n_after < logs[k].n_before
          /\ logs[k].n_after >= args.intra_clean_min_segments
          /\ logs[k].n_after = logs[k].n_before - logs[k].removed
          /\ k > 1 => logs[k].n_before = logs[k - 1].n_after

\* C24: the cleaning of a speaker runs at most intra_clean_max_iter rounds,
\* every step of it either ends the cleaning or starts the next round, and the
\* log of a speaker has at most intra_clean_max_iter entries, each with
\* n_after < n_before, n_after >= intra_clean_min_segments and n_before equal
\* to the n_after of the entry before it.
C24_CleaningBounded ==
    /\ [](/\ pc = "clean_iter" =>
               /\ it >= 1 /\ it <= args.intra_clean_max_iter
               /\ Len(iter_logs) = it - 1
               /\ WellFormedLog(iter_logs)
               /\ iter_logs # <<>> =>
                     iter_logs[Len(iter_logs)].n_after = Len(segs)
          /\ \A i \in 1..Len(intra_clean_log) :
               /\ intra_clean_log[i].iterations # <<>>
               /\ WellFormedLog(intra_clean_log[i].iterations))
    /\ [][pc = "clean_iter" =>
            \/ pc' = "clean" /\ ci' = ci + 1
            \/ pc' = "clean_iter" /\ it' = it + 1 /\ ci' = ci]_vars

\* two rounds ran and each removed one segment: three, then two, then one
C24_Witness ==
    /\ pc = "clean" /\ ci = 2
    /\ args.intra_clean_max_iter = 2
    /\ Len(intra_clean_log) = 1
    /\ Len(intra_clean_log[1].iterations) = 2
    /\ intra_clean_log[1].iterations[1].n_before = 3
    /\ intra_clean_log[1].iterations[2].n_before = 2
    /\ Len(segs) = 1

\* one round was allowed and it removed one of three segments; the two that
\* are left still have one below the cutoff, and the cleaning has ended
C24_StoppedByBound ==
    /\ pc = "clean" /\ ci = 2
    /\ args.intra_clean_max_iter = 1
    /\ args.intra_clean_min_segments = 1
    /\ Len(intra_clean_log) = 1
    /\ Len(intra_clean_log[1].iterations) = 1
    /\ Len(segs) = 2
    /\ BelowCutoff(segs) # {}

\* the similarity of the profile that attempt_merge looks at to entry j
SimTo(j) == cosine(new_profiles[idx].embedding, existing[j].embedding)

\* entry g is the first of the entries with the largest number as similarity
FirstMaximum(g) ==
    /\ g \in 1..Len(existing)
    /\ SimTo(g) # NaN
    /\ \A j \in 1..Len(existing) :
          SimTo(j) # NaN => SimTo(j) < SimTo(g) \/ (SimTo(j) = SimTo(g) /\ g <= j)

\* C25: the best match of a profile is the first registry entry, in the order
\* of the registry, that has the largest similarity among the entries whose
\* similarity is a number; when no entry has a number as similarity there is
\* no best match; and the label a profile is mapped to by a match is that of
\* its best match.
C25_BestMatchIsFirstMaximum ==
    /\ [](pc = "attempt" /\ idx <= Len(new_profiles) =>
            LET m == match_existing(new_profiles[idx].embedding, existing)
            IN IF \E j \in 1..Len(existing) : SimTo(j) # NaN
               THEN /\ FirstMaximum(LabelIndex(existing, m.best_label))
                    /\ m.best_sim = SimTo(LabelIndex(existing, m.best_label))
               ELSE m = [best_label |-> <<>>, best_sim |-> -2 * Scale])
    /\ [][pc = "attempt" /\ Len(mapping') = Len(mapping) + 1 =>
            /\ mapping'[Len(mapping')].spk = new_profiles[idx].spk
            /\ FirstMaximum(LabelIndex(existing, mapping'[Len(mapping')].global))]_vars

\* the registry is SPK00, SPK01 (not a number), SPK7, and the profile was
\* matched to SPK7, the only entry that reaches the threshold
C25_Witness ==
    /\ last_match.kind = "match"
    /\ Len(existing) = 3
    /\ ~IsFinite(existing[2].embedding)
    /\ last_match.label = SPK7
    /\ last_match.centroid = E1

\* two entries were equally similar and the profile was matched to the first
C25_TieWitness ==
    /\ last_match.kind = "match"
    /\ Len(existing) = 2
    /\ existing[2].embedding = last_match.old.embedding
    /\ last_match.label = existing[1].label

\* C26 as stated: the suggested threshold that the run reports is
\* min(p75, max(p25, mean - 0.5 * std)) of the best-match similarities, and it
\* is not above the reported 75th percentile and not below the reported 25th.
C26_SuggestedWithinQuartiles ==
    Finished /\ out.suggested_threshold # <<>> =>
        LET st == out.similarity_stats[1]
            t  == 100 * out.suggested_threshold[1]
        IN /\ t = Candidate(st)
           /\ t >= st.p25
           /\ t <= st.p75

\* what holds: the reported value is the clamped candidate rounded to three
\* decimals, at most half a thousandth away from the quartile range
C26_SuggestedIsRoundedCandidate ==
    Finished /\ out.suggested_threshold # <<>> =>
        LET st == out.similarity_stats[1]
            t  == 100 * out.suggested_threshold[1]
            c  == Candidate(st)
        IN /\ c >= st.p25 \/ st.p25 > st.p75
           /\ c <= st.p75
           /\ t - c <= 50 /\ c - t <= 50

\* two best-match similarities whose 25th percentile is not a multiple of a
\* thousandth, and a suggested threshold below it
C26_Witness ==
    /\ Finished
    /\ out.suggested_threshold # <<>>
    /\ out.similarity_stats[1].count = 2
    /\ 100 * out.suggested_threshold[1] < out.similarity_stats[1].p25
    /\ out.similarity_stats[1].p25 % 100 \notin {0, 50}

\* the profiles that have an entry in a mapping
MappedProfiles(m) ==
    LET IsMapped(pr) == \E i \in 1..Len(m) : m[i].spk = pr.spk
    IN SelectSeq(new_profiles, IsMapped)

\* the profiles with a centroid that is a vector of numbers
ValidProfiles ==
    LET Valid(pr) == pr.embedding # NoEmb /\ IsFinite(pr.embedding)
    IN SelectSeq(new_profiles, Valid)

\* C27: from the first matching pass on, the durations of the registry add up
\* to those of the registry as it was loaded plus those of the profiles mapped
\* so far; in the output they add up to those of the loaded registry plus
\* those of all profiles with a valid centroid.
C27_DurationConserved ==
    /\ pc \in {"attempt", "lower", "diag", "create"} =>
          SumDurations(existing) =
              SumDurations(load_existing_embeddings(existing_file))
                + SumDurations(MappedProfiles(mapping))
    /\ Finished =>
          SumDurations(out.speakers) =
              SumDurations(load_existing_embeddings(existing_file))
                + SumDurations(ValidProfiles)

\* a run with a prior registry in which one profile was matched after the
\* threshold was lowered and another one got a new label
C27_Witness ==
    /\ Finished
    /\ load_existing_embeddings(existing_file) # <<>>
    /\ Len(passes) > 1
    /\ last_match.kind = "match"
    /\ created # <<>>
    /\ Len(out.mapping) = 2

\* C28: a local label has at most one entry in the mapping; a step never
\* changes or removes an entry, and adds at most one, for a label that had
\* none; the registry changes only in a step that adds such an entry, so no
\* retry pass and no new-label step handles a mapped profile again.
C28_AssignedOnce ==
    /\ [](\A i, j \in 1..Len(mapping) : mapping[i].spk = mapping[j].spk => i = j)
    /\ [][(pc \in {"attempt", "lower", "diag", "create"}) =>
            /\ Len(mapping') \in {Len(mapping), Len(mapping) + 1}
            /\ SubSeq(mapping', 1, Len(mapping)) = mapping
            /\ (Len(mapping') = Len(mapping) + 1 =>
                  /\ mapping'[Len(mapping')].spk = new_profiles[idx].spk
                  /\ \A i \in 1..Len(mapping) :
                        mapping[i].spk # new_profiles[idx].spk)
            /\ (existing' # existing => Len(mapping') = Len(mapping) + 1)]_vars

\* the first profile was matched in a pass, and the new-label loop has gone
\* past it without a second entry
C28_Witness ==
    /\ pc = "create"
    /\ idx = 2
    /\ Len(new_profiles) = 2
    /\ last_match.kind = "match"
    /\ last_match.spk = new_profiles[1].spk
    /\ Len(mapping) = 1
    /\ created = <<>>

\* C29 as stated: whatever the step of the auto-lowering is, a run that has
\* reached the retry loop leaves it and goes on to the diagnostics.
C29_LoopTerminates == (pc = "lower") ~> (pc = "diag")

\* with a positive step the retries are at most floor((threshold - min) / step)
C29_RetriesWithinQuotient ==
    args.auto_lower_step > 0 /\ args.threshold >= args.auto_lower_min =>
        Len(passes) - 1 <=
            (args.threshold - args.auto_lower_min) \div args.auto_lower_step

\* with a step of zero the loop is entered again with the threshold it had
C29_SameThresholdAgain ==
    /\ pc = "lower"
    /\ args.auto_lower_step = 0
    /\ Len(passes) > 2
    /\ passes[Len(passes)].thr = passes[Len(passes) - 1].thr
    /\ cur = passes[Len(passes)].thr
    /\ DGe(cur, DFromMilli(args.auto_lower_min)) /\ ~AnyMatched

\* the tasks of a language that are scheduled or running
TasksOf(lang) == {i \in 1..Len(tasks) : tasks[i].lang = lang}

\* C30 as stated: at every moment at most one download task of a language is
\* scheduled or running, and the status endpoint never reports "failed" for a
\* language that is installed.
C30_OneTaskPerLanguage ==
    \A lang \in AVAILABLE_LANGS :
        /\ Cardinality(TasksOf(lang)) <= 1
        /\ is_installed(lang) => get_download_status(lang).status # "failed"

\* the part that holds: the status endpoint answers "completed" for an
\* installed language, whatever the tasks have written
C30_ReportedCompletedWhenInstalled ==
    \A lang \in AVAILABLE_LANGS :
        is_installed(lang) => get_download_status(lang).status = "completed"

\* a second POST was answered "downloading" and scheduled a second task while
\* the first one had not started
C30_SecondTaskScheduled ==
    /\ Len(responses) = 2
    /\ responses[1].lang = responses[2].lang
    /\ responses[2].status = "downloading"
    /\ Len(tasks) = 2
    /\ tasks[1].lang = tasks[2].lang
    /\ tasks[1].pc = "added" /\ tasks[2].pc = "added"

\* one of two tasks installed the language and the other one wrote "failed"
C30_StoredFailedWhenInstalled ==
    \E lang \in AVAILABLE_LANGS :
        /\ is_installed(lang)
        /\ download_status[lang].status = "failed"

=============================================================================
